---- MODULE Spec2Model ----
(***************************************************************************)
(* py2spack: the dependency-constraint translation core.                   *)
(*                                                                         *)
(*   conversion_tools.py  version conversion, condensation of version      *)
(*                        subsets into ranges, marker evaluation,          *)
(*                        requirement conversion                           *)
(*   core.py              dependency conflict detection                    *)
(*                                                                         *)
(* Versions of the target scheme (spack StandardVersion) are records       *)
(* [release, prerelease] of integer sequences, compared as Python compares *)
(* the tuple (release, prerelease).  A string component of a release       *)
(* ("dev", "post") is written as a negative integer: string components     *)
(* sort below every number and among themselves alphabetically.            *)
(***************************************************************************)
EXTENDS Integers, Sequences, FiniteSets, TLC

VARIABLES
    pc,                    \* position of the run: "start", then the call that ended
    universe,              \* _all_versions: list of packaging versions
    subset,                \* _subset_of_versions: list of packaging versions
    vlist,                 \* what condensed_version_list returned
    marker,                \* m._markers of the marker given to evaluate_marker
    marker_eval,           \* what evaluate_marker returned
    requirement,           \* the requirement r given to convert_requirement
    from_extra,            \* its from_extra argument (None or <<name>>)
    known,                 \* what provider.get_versions(requirement.name) returns
    converted,             \* what convert_requirement returned
    dependency_list,       \* the triples given to the conflict detection
    dependency_conflicts,  \* the DependencyConflictErrors it returned
    registry,              \* the version strings or tags the registry reports
    provider,              \* the provider asked: "pypi" or "github"
    got_versions,          \* what provider.get_versions returned
    package_versions,      \* SpackPyPkg.all_versions
    todo,                  \* the _requirement_from_pyproject calls still to make
    calls,                 \* the calls made, each with what convert_requirement returned
    specs_to_versions,     \* SpackPyPkg._specs_to_versions
    specs_to_types,        \* SpackPyPkg._specs_to_types
    original_dependencies, \* SpackPyPkg.original_dependencies
    conversion_errors,     \* SpackPyPkg.dependency_conversion_errors
    dependencies_by_type,  \* SpackPyPkg._dependencies_by_type
    cache,                 \* the memo of _pkg_specifier_set_to_version_list
    num_versions,          \* _load_pyprojects: the number of versions to look at
    unloadable,            \* the versions whose pyproject.toml cannot be got or parsed
    loaded,                \* the list _load_pyprojects returns, by version
    metadata,              \* the version of the pyproject the metadata was taken from
    world,                 \* what _convert_single and Spack answer for the names
    max_conversions,       \* convert_package: max_conversions
    queue,                 \* convert_package: queue
    converted_packages,    \* convert_package: converted, the names
    conversion_failures,   \* convert_package: conversion_failures
    repo_packages,         \* the package directories of the repository
    popped                 \* the names taken from the queue, in order

varsCondense == <<universe, subset, vlist>>
varsMarker == <<marker, marker_eval>>
varsConvert == <<requirement, from_extra, known, converted>>
varsConflicts == <<dependency_list, dependency_conflicts>>
varsProvider == <<registry, provider, got_versions>>
varsPackage ==
    <<package_versions, todo, calls, specs_to_versions, specs_to_types, original_dependencies,
      conversion_errors, dependencies_by_type, cache>>
varsLoad == <<num_versions, unloadable, loaded, metadata>>
varsRun ==
    <<world, max_conversions, queue, converted_packages, conversion_failures, repo_packages,
      popped>>
vars ==
    <<pc, varsCondense, varsMarker, varsConvert, varsConflicts, varsProvider, varsPackage,
      varsLoad, varsRun>>

----------------------------------------------------------------------------
(* Bounds of the model *)

MaxSeg == 1
MaxRelLen == 2
MaxUniverse == 3

----------------------------------------------------------------------------
(* Program constants *)

ALPHA == 0
BETA == 1
RC == 2
FINAL == 3
\* VersionStrComponent("dev") and ("post"): below every number, dev < post
StrDev == -4
StrPost == -2
\* the component of StandardVersion.typemax(), above every number
Infinity == 1000

None == <<>>

----------------------------------------------------------------------------
(* Python helpers *)

\* Python's tuple order on integer tuples: lexicographic, a proper prefix is smaller
TupleLess(a, b) ==
    \E k \in 1..Len(b) :
        /\ k <= Len(a) + 1
        /\ \A m \in 1..(k - 1) : a[m] = b[m]
        /\ (k = Len(a) + 1 \/ a[k] < b[k])

\* seq[i] for a 0-based Python index; a negative index counts from the end
PyAt(seq, i) == IF i >= 0 THEN seq[i + 1] ELSE seq[Len(seq) + i + 1]

\* list.index(x), 0-based; -1 stands for the ValueError of a missing element
PyIndex(seq, x) ==
    IF \E k \in 1..Len(seq) : seq[k] = x
    THEN (CHOOSE k \in 1..Len(seq) : seq[k] = x /\ \A m \in 1..(k - 1) : seq[m] # x) - 1
    ELSE -1

Range(seq) == {seq[k] : k \in 1..Len(seq)}

----------------------------------------------------------------------------
(* spack.version: StandardVersion, ClosedOpenRange, VersionList *)

StandardVersion(release, prerelease) == [release |-> release, prerelease |-> prerelease]

VLess(v, w) ==
    \/ TupleLess(v.release, w.release)
    \/ v.release = w.release /\ TupleLess(v.prerelease, w.prerelease)

VLeq(v, w) == v = w \/ VLess(v, w)

VMin(v, w) == IF VLess(w, v) THEN w ELSE v
VMax(v, w) == IF VLess(v, w) THEN w ELSE v

typemin == StandardVersion(<<>>, <<ALPHA>>)
typemax == StandardVersion(<<Infinity>>, <<FINAL>>)

\* v.up_to(n): the first n release components, re-parsed: the prerelease is dropped
up_to(v, n) ==
    StandardVersion(SubSeq(v.release, 1, IF n < Len(v.release) THEN n ELSE Len(v.release)),
                    <<FINAL>>)

\* _next_version: the smallest version above every version that v is a prefix of
next_version(v) ==
    IF v.prerelease[1] # FINAL
    THEN StandardVersion(v.release,
                         <<v.prerelease[1],
                           IF Len(v.prerelease) > 1 THEN v.prerelease[2] + 1 ELSE 0>>)
    ELSE StandardVersion(
             [k \in 1..Len(v.release) |->
                 IF k = Len(v.release) THEN v.release[k] + 1 ELSE v.release[k]],
             v.prerelease)

ClosedOpenRange(lo, hi) == [lo |-> lo, hi |-> hi]

\* ClosedOpenRange.__init__ raises EmptyRangeError when hi < lo
EmptyRange(lo, hi) == VLess(next_version(hi), lo)

\* VersionRange(lo, hi) = ClosedOpenRange.from_version_range: lo:hi is [lo, next(hi))
VersionRange(lo, hi) == ClosedOpenRange(lo, next_version(hi))

\* StandardVersion in ClosedOpenRange
InRange(v, r) == VLeq(r.lo, v) /\ VLess(v, r.hi)

RangeLess(r, s) == VLess(r.lo, s.lo) \/ (r.lo = s.lo /\ VLess(r.hi, s.hi))

\* ClosedOpenRange.intersects(ClosedOpenRange)
RangeIntersects(r, s) == VLess(r.lo, s.hi) /\ VLess(s.lo, r.hi)

\* ClosedOpenRange._union_if_not_disjoint: defined when the ranges touch or overlap
RangeTouches(r, s) == VLeq(r.lo, s.hi) /\ VLeq(s.lo, r.hi)
RangeUnion(r, s) == ClosedOpenRange(VMin(r.lo, s.lo), VMax(r.hi, s.hi))

\* VersionList.add of a range: kept sorted, merged with every range it touches
RECURSIVE VersionListAdd(_, _)
VersionListAdd(list, r) ==
    IF list = <<>> THEN <<r>>
    ELSE IF RangeTouches(Head(list), r)
         THEN VersionListAdd(Tail(list), RangeUnion(Head(list), r))
         ELSE IF RangeLess(r, Head(list))
              THEN <<r>> \o list
              ELSE <<Head(list)>> \o VersionListAdd(Tail(list), r)

\* VersionList(ranges)
RECURSIVE VersionList(_)
VersionList(ranges) ==
    IF ranges = <<>> THEN <<>>
    ELSE VersionListAdd(VersionList(SubSeq(ranges, 1, Len(ranges) - 1)), ranges[Len(ranges)])

\* StandardVersion in VersionList
Contains(list, v) == \E k \in 1..Len(list) : InRange(v, list[k])

\* VersionList(":"), spack.version.any_version
any_version == <<VersionRange(typemin, typemax)>>

----------------------------------------------------------------------------
(* packaging.version.Version: [release, pre, post, dev]; pre is None or      *)
(* <<kind, number>>, post and dev are None or <<number>>.  Epoch 0, no local *)
(* segment.                                                                  *)

PvVersion(release, pre, post, dev) ==
    [release |-> release, pre |-> pre, post |-> post, dev |-> dev]

RECURSIVE StripZeros(_)
StripZeros(release) ==
    IF release # <<>> /\ release[Len(release)] = 0
    THEN StripZeros(SubSeq(release, 1, Len(release) - 1))
    ELSE release

\* packaging's _cmpkey: the parts of the sort key after the release
PvPreKey(v) ==
    IF v.pre = None /\ v.post = None /\ v.dev # None THEN <<-1>>
    ELSE IF v.pre = None THEN <<FINAL>>
    ELSE v.pre
PvPostKey(v) == IF v.post = None THEN <<-1>> ELSE <<0, v.post[1]>>
PvDevKey(v) == IF v.dev = None THEN <<1>> ELSE <<0, v.dev[1]>>

PvEq(v, w) ==
    /\ StripZeros(v.release) = StripZeros(w.release)
    /\ v.pre = w.pre /\ v.post = w.post /\ v.dev = w.dev

PvLess(v, w) ==
    LET rv == StripZeros(v.release)
        rw == StripZeros(w.release)
    IN  \/ TupleLess(rv, rw)
        \/ rv = rw /\ TupleLess(PvPreKey(v), PvPreKey(w))
        \/ rv = rw /\ PvPreKey(v) = PvPreKey(w) /\ TupleLess(PvPostKey(v), PvPostKey(w))
        \/ rv = rw /\ PvPreKey(v) = PvPreKey(w) /\ PvPostKey(v) = PvPostKey(w)
              /\ TupleLess(PvDevKey(v), PvDevKey(w))

PvLeq(v, w) == PvEq(v, w) \/ PvLess(v, w)

\* sorted(set): ascending in packaging's order
RECURSIVE PvSorted(_)
PvSorted(S) ==
    IF S = {} THEN <<>>
    ELSE LET m == CHOOSE x \in S : \A y \in S : ~PvLess(y, x)
         IN  <<m>> \o PvSorted(S \ {m})

Reverse(seq) == [k \in 1..Len(seq) |-> seq[Len(seq) + 1 - k]]

----------------------------------------------------------------------------
(* conversion_tools.py: version conversion *)

packaging_to_spack_version(v) ==
    IF v.pre # None
    THEN StandardVersion(v.release, v.pre)
    ELSE StandardVersion(
             v.release
                 \o (IF v.post # None THEN <<StrPost, v.post[1]>> ELSE <<>>)
                 \o (IF v.dev # None THEN <<StrDev, v.dev[1]>> ELSE <<>>),
             <<FINAL>>)

version_type_supported(version) ==
    version.pre = None \/ (version.post = None /\ version.dev = None)

\* sorted(list of StandardVersion): insertion into an ascending list
RECURSIVE SvInsert(_, _)
SvInsert(sorted, v) ==
    IF sorted = <<>> THEN <<v>>
    ELSE IF VLess(v, Head(sorted)) THEN <<v>> \o sorted
    ELSE <<Head(sorted)>> \o SvInsert(Tail(sorted), v)

RECURSIVE SvSorted(_)
SvSorted(seq) ==
    IF seq = <<>> THEN <<>>
    ELSE SvInsert(SvSorted(SubSeq(seq, 1, Len(seq) - 1)), seq[Len(seq)])

----------------------------------------------------------------------------
(* conversion_tools.py: most general bounds *)

\* number of leading release components on which curr and other agree
CommonPrefix(curr, other) ==
    LET m == IF Len(curr.release) < Len(other.release)
             THEN Len(curr.release) ELSE Len(other.release)
    IN  IF \E k \in 1..m : curr.release[k] # other.release[k]
        THEN (CHOOSE k \in 1..m :
                 /\ curr.release[k] # other.release[k]
                 /\ \A n \in 1..(k - 1) : curr.release[n] = other.release[n]) - 1
        ELSE m

\* variant: the upper bound that is the version itself
best_upperbound_exact(curr, nxt) == curr

\* _best_upperbound
best_upperbound(curr, nxt) ==
    LET i == CommonPrefix(curr, nxt)
        m == IF Len(curr.release) < Len(nxt.release)
             THEN Len(curr.release) ELSE Len(nxt.release)
    IN  IF i = Len(curr.release) /\ Len(curr.release) < Len(nxt.release)
        THEN StandardVersion(
                 curr.release \o [k \in 1..(Len(nxt.release) - Len(curr.release)) |-> 0],
                 <<FINAL>>)
        ELSE IF i = m THEN curr
        ELSE up_to(curr, i + 1)

\* line 121-124: the first index where prev is smaller, 0-based; -1 when there is none
FirstSmaller(prev, curr) ==
    LET m == IF Len(curr.release) < Len(prev.release)
             THEN Len(curr.release) ELSE Len(prev.release)
    IN  IF \E k \in 1..m : prev.release[k] < curr.release[k]
        THEN (CHOOSE k \in 1..m :
                 /\ prev.release[k] < curr.release[k]
                 /\ \A n \in 1..(k - 1) : ~(prev.release[n] < curr.release[n])) - 1
        ELSE -1

\* line 132-133: skip the zeros of curr from index i on
RECURSIVE SkipZeros(_, _)
SkipZeros(curr, i) ==
    IF i < Len(curr.release) /\ curr.release[i + 1] = 0
    THEN SkipZeros(curr, i + 1)
    ELSE i

best_lowerbound(prev, curr) ==
    IF curr.release = prev.release THEN curr
    ELSE LET f == FirstSmaller(prev, curr)
             m == IF Len(curr.release) < Len(prev.release)
                  THEN Len(curr.release) ELSE Len(prev.release)
         IN  IF f >= 0 THEN up_to(curr, f + 1)
             ELSE LET i == SkipZeros(curr, m)
                  IN  IF i >= Len(curr.release) THEN curr ELSE up_to(curr, i + 1)

\* the assert statements of _best_upperbound and _best_lowerbound
upperbound_asserts(curr, nxt) == VLess(curr, nxt)
lowerbound_asserts(prev, curr) ==
    /\ VLess(prev, curr)
    /\ (curr.release # prev.release /\ FirstSmaller(prev, curr) < 0)
           => Len(curr.release) > Len(prev.release)

----------------------------------------------------------------------------
(* conversion_tools.py: condensed_version_list *)

\* what a call returns: kind "ok" with a VersionList, or the exception that ended it
Ok(ranges) == [kind |-> "ok", ranges |-> ranges]
Raise(exception) == [kind |-> exception, ranges |-> <<>>]
NotCalled == [kind |-> "none", ranges |-> <<>>]
\* the None that _eval_python_version_marker returns instead of a version list
NoVersionList == [kind |-> "None", ranges |-> <<>>]

\* lines 244-262: the loop over subset and all_versions, and the last range;
\* i and j are the 0-based indices of the code
RECURSIVE CondenseLoop(_, _, _, _, _, _)
CondenseLoop(sub, all, i, j, lo, new) ==
    IF j < Len(sub) /\ i < Len(all)
    THEN IF PyAt(all, i) # PyAt(sub, j)
         THEN IF ~upperbound_asserts(PyAt(sub, j - 1), PyAt(all, i))
              THEN Raise("AssertionError")
              ELSE LET hi == best_upperbound(PyAt(sub, j - 1), PyAt(all, i))
                       i2 == PyIndex(all, PyAt(sub, j))
                   IN  IF EmptyRange(lo, hi) THEN Raise("EmptyRangeError")
                       ELSE IF i2 < 0 THEN Raise("ValueError")
                       ELSE IF ~lowerbound_asserts(PyAt(all, i2 - 1), PyAt(sub, j))
                            THEN Raise("AssertionError")
                       ELSE CondenseLoop(sub, all, i2 + 1, j + 1,
                                best_lowerbound(PyAt(all, i2 - 1), PyAt(sub, j)),
                                Append(new, VersionRange(lo, hi)))
         ELSE CondenseLoop(sub, all, i + 1, j + 1, lo, new)
    ELSE IF i = Len(all)
         THEN Ok(VersionList(Append(new, VersionRange(lo, typemax))))
         ELSE IF ~upperbound_asserts(PyAt(sub, j - 1), PyAt(all, i))
              THEN Raise("AssertionError")
              ELSE LET hi == best_upperbound(PyAt(sub, j - 1), PyAt(all, i))
                   IN  IF EmptyRange(lo, hi) THEN Raise("EmptyRangeError")
                       ELSE Ok(VersionList(Append(new, VersionRange(lo, hi))))

\* variant: the first range starts at the first version of the subset
condensed_version_list_bounded(subset_of_versions, all_versions) ==
    LET subset_filtered == SelectSeq(subset_of_versions, version_type_supported)
        all_versions_filtered == SelectSeq(all_versions, version_type_supported)
        sub == SvSorted([k \in 1..Len(subset_filtered) |->
                            packaging_to_spack_version(subset_filtered[k])])
        all == SvSorted([k \in 1..Len(all_versions_filtered) |->
                            packaging_to_spack_version(all_versions_filtered[k])])
        i == PyIndex(all, sub[1]) + 1
    IN  IF Len(sub) = 0 THEN Ok(<<>>)
        ELSE IF i = 0 THEN Raise("ValueError")
        ELSE IF i = 1 THEN CondenseLoop(sub, all, i, 1, sub[1], <<>>)
        ELSE IF ~lowerbound_asserts(PyAt(all, i - 2), sub[1]) THEN Raise("AssertionError")
        ELSE CondenseLoop(sub, all, i, 1, best_lowerbound(PyAt(all, i - 2), sub[1]), <<>>)

condensed_version_list(subset_of_versions, all_versions) ==
    LET subset_filtered == SelectSeq(subset_of_versions, version_type_supported)
        all_versions_filtered == SelectSeq(all_versions, version_type_supported)
        sub == SvSorted([k \in 1..Len(subset_filtered) |->
                            packaging_to_spack_version(subset_filtered[k])])
        all == SvSorted([k \in 1..Len(all_versions_filtered) |->
                            packaging_to_spack_version(all_versions_filtered[k])])
        i == PyIndex(all, sub[1]) + 1
    IN  IF Len(sub) = 0 THEN Ok(<<>>)
        ELSE IF i = 0 THEN Raise("ValueError")
        ELSE IF i = 1 THEN CondenseLoop(sub, all, i, 1, typemin, <<>>)
        ELSE IF ~lowerbound_asserts(PyAt(all, i - 2), sub[1]) THEN Raise("AssertionError")
        ELSE CondenseLoop(sub, all, i, 1, best_lowerbound(PyAt(all, i - 2), sub[1]), <<>>)

----------------------------------------------------------------------------
(* packaging.specifiers: a SpecifierSet is a set of clauses [op, version], *)
(* all of which a version must satisfy (contains(v, prereleases=True))      *)

Specifier(op, version) == [op |-> op, version |-> version]

PvIsPrerelease(v) == v.pre # None \/ v.dev # None
PvIsPostrelease(v) == v.post # None
PvSameBase(v, w) == StripZeros(v.release) = StripZeros(w.release)

SpecifierContains(sp, v) ==
    CASE sp.op = "==" -> PvEq(v, sp.version)
      [] sp.op = "!=" -> ~PvEq(v, sp.version)
      [] sp.op = ">=" -> PvLeq(sp.version, v)
      [] sp.op = "<=" -> PvLeq(v, sp.version)
      [] sp.op = "<"  -> /\ PvLess(v, sp.version)
                         /\ ~(~PvIsPrerelease(sp.version) /\ PvIsPrerelease(v)
                                /\ PvSameBase(v, sp.version))
      [] sp.op = ">"  -> /\ PvLess(sp.version, v)
                         /\ ~(~PvIsPostrelease(sp.version) /\ PvIsPostrelease(v)
                                /\ PvSameBase(v, sp.version))

SpecifierSetContains(specifier_set, v) == \A sp \in specifier_set : SpecifierContains(sp, v)

----------------------------------------------------------------------------
(* conversion_tools.py: the known python versions and the specifier conversion *)

Release3(major, minor, patch) == PvVersion(<<major, minor, patch>>, None, None, None)

KNOWN_PYTHON_VERSIONS ==
    <<Release3(3, 6, 15), Release3(3, 7, 17), Release3(3, 8, 18), Release3(3, 9, 18),
      Release3(3, 10, 13), Release3(3, 11, 7), Release3(3, 12, 1), Release3(3, 13, 0),
      Release3(4, 0, 0)>>

get_python_versions == KNOWN_PYTHON_VERSIONS

\* what provider.get_versions returns for a name: a list of versions or an error
ProviderVersions(list) == [error |-> FALSE, versions |-> list]
PackageProviderQueryError == [error |-> TRUE, versions |-> <<>>]

\* _pkg_specifier_set_to_version_list; provided is what provider.get_versions(pkg) returns
pkg_specifier_set_to_version_list(pkg, specifier_set, provided) ==
    LET all_versions == IF pkg = "python" THEN ProviderVersions(get_python_versions)
                        ELSE provided
    IN  IF all_versions.error THEN Ok(<<>>)
        ELSE LET Matches(v) == SpecifierSetContains(specifier_set, v)
                 matching == SelectSeq(all_versions.versions, Matches)
             IN  IF matching # <<>>
                 THEN condensed_version_list(matching, all_versions.versions)
                 ELSE Ok(<<>>)

----------------------------------------------------------------------------
(* spack.spec.Spec, as far as the conversion builds it: a package name ("" *)
(* for an anonymous spec), the version list, the variants (+x is            *)
(* <<"x", TRUE>>, ~x is <<"x", FALSE>>), the platform of the architecture   *)
(* ("" when there is none) and the version list of the python dependency    *)
(* (None when the spec has no ^python).                                     *)

Spec(name, versions, variants, platform, python) ==
    [name |-> name, versions |-> versions, variants |-> variants,
     platform |-> platform, python |-> python]

EmptySpec == Spec("", any_version, {}, "", None)
NamedSpec(name) == Spec(name, any_version, {}, "", None)
PlatformSpec(p) == Spec("", any_version, {}, p, None)
VariantSpec(extra, value) == Spec("", any_version, {<<extra, value>>}, "", None)
PythonSpec(versions) == Spec("", any_version, {}, "", versions)

\* VersionList.intersects and VersionList.intersection
VersionListIntersects(a, b) ==
    \E i \in 1..Len(a), j \in 1..Len(b) : RangeIntersects(a[i], b[j])

RECURSIVE AddAll(_, _)
AddAll(list, ranges) ==
    IF ranges = {} THEN list
    ELSE LET r == CHOOSE x \in ranges : TRUE
         IN  AddAll(VersionListAdd(list, r), ranges \ {r})

VersionListIntersection(a, b) ==
    AddAll(<<>>,
           {ClosedOpenRange(VMax(a[i].lo, b[j].lo), VMin(a[i].hi, b[j].hi)) :
                <<i, j>> \in {p \in (1..Len(a)) \X (1..Len(b)) :
                                 RangeIntersects(a[p[1]], b[p[2]])}})

\* VersionList.add(VersionList): the union
RECURSIVE VersionListUnion(_, _)
VersionListUnion(a, b) ==
    IF b = <<>> THEN a ELSE VersionListUnion(VersionListAdd(a, Head(b)), Tail(b))

VariantsIntersect(a, b) == \A v \in a, w \in b : v[1] = w[1] => v[2] = w[2]

\* Spec.intersects
SpecIntersects(a, b) ==
    /\ (a.name # "" /\ b.name # "") => a.name = b.name
    /\ VersionListIntersects(a.versions, b.versions)
    /\ VariantsIntersect(a.variants, b.variants)
    /\ (a.platform # "" /\ b.platform # "") => a.platform = b.platform
    /\ (a.python # None /\ b.python # None) => VersionListIntersects(a.python, b.python)

\* variant: a constrain that replaces self by other
SpecConstrainReplacing(self, other) ==
    Spec(other.name, other.versions, other.variants, other.platform, other.python)

\* Spec.constrain raises UnsatisfiableSpecError exactly when the specs do not
\* intersect; otherwise self becomes the conjunction of both
SpecConstrain(self, other) ==
    Spec(IF self.name # "" THEN self.name ELSE other.name,
         VersionListIntersection(self.versions, other.versions),
         self.variants \cup other.variants,
         IF self.platform # "" THEN self.platform ELSE other.platform,
         IF self.python = None THEN other.python
         ELSE IF other.python = None THEN self.python
         ELSE VersionListIntersection(self.python, other.python))

----------------------------------------------------------------------------
(* packaging.markers: a marker's _markers list.  A node is a leaf           *)
(* (lhs, op, rhs) whose sides are a Variable or a Value, or a nested list.  *)
(* The list is kept as items [op, node], op being the "and"/"or" written    *)
(* before the node ("" for the first node).                                 *)

Variable(name) == [kind |-> "Variable", value |-> name]
Value(text) == [kind |-> "Value", value |-> text]
Leaf(lhs, op, rhs) == [kind |-> "leaf", lhs |-> lhs, op |-> op, rhs |-> rhs]
Nested(items) == [kind |-> "list", items |-> items]
Item(op, node) == [op |-> op, node |-> node]

\* str.lower() on the literals of the model
Lower(text) ==
    CASE text = "CPython" -> "cpython"
      [] text = "Linux" -> "linux"
      [] text = "Windows" -> "windows"
      [] OTHER -> text

\* the version a literal parses to; other literals are no version
VersionLiterals == {"3.5", "3.8", "3.9", "3.10", "3.9.18", "4"}
ParseVersion(text) ==
    CASE text = "3.5" -> PvVersion(<<3, 5>>, None, None, None)
      [] text = "3.8" -> PvVersion(<<3, 8>>, None, None, None)
      [] text = "3.9" -> PvVersion(<<3, 9>>, None, None, None)
      [] text = "3.10" -> PvVersion(<<3, 10>>, None, None, None)
      [] text = "3.9.18" -> PvVersion(<<3, 9, 18>>, None, None, None)
      [] text = "4" -> PvVersion(<<4>>, None, None, None)

----------------------------------------------------------------------------
(* conversion_tools.py: marker evaluation.  A result is True, False, None   *)
(* (unevaluable), a list of specs (kept as a set: the code passes it        *)
(* through set()), or the exception that ended the evaluation.              *)

MTrue == [kind |-> "True", specs |-> {}]
MFalse == [kind |-> "False", specs |-> {}]
MNone == [kind |-> "None", specs |-> {}]
MList(specs) == [kind |-> "List", specs |-> specs]
MRaise(exception) == [kind |-> exception, specs |-> {}]
MBool(b) == IF b THEN MTrue ELSE MFalse

Raised(result) == result.kind \notin {"True", "False", "None", "List"}

UNSUPPORTED_PYTHON == VersionRange(typemin, StandardVersion(<<3, 5>>, <<FINAL>>))

platforms == {"linux", "cray", "darwin", "windows", "freebsd"}

\* ClosedOpenRange.satisfies(ClosedOpenRange)
RangeSatisfies(r, other) == VLeq(other.lo, r.lo) /\ VLeq(r.hi, other.hi)

\* _eval_python_version_marker
eval_python_version_marker(op, value) ==
    IF op \notin {"==", ">", ">=", "<", "<=", "!="} THEN NoVersionList
    ELSE IF value \notin VersionLiterals THEN NoVersionList
    ELSE pkg_specifier_set_to_version_list(
             "python", {Specifier(op, ParseVersion(value))}, PackageProviderQueryError)

RECURSIVE DropUnsupported(_)
DropUnsupported(vs) ==
    IF vs # <<>> /\ RangeSatisfies(Head(vs), UNSUPPORTED_PYTHON)
    THEN DropUnsupported(Tail(vs))
    ELSE vs

\* variant: _simplify_python_constraint that opens the first range downwards
\* whether or not it touches UNSUPPORTED_PYTHON
simplify_python_constraint_open(versions) ==
    LET vs == DropUnsupported(versions)
    IN  IF vs = <<>> THEN vs
        ELSE <<RangeUnion(UNSUPPORTED_PYTHON, Head(vs))>> \o Tail(vs)

\* _simplify_python_constraint
simplify_python_constraint(versions) ==
    LET vs == DropUnsupported(versions)
    IN  IF vs = <<>> THEN vs
        ELSE IF RangeTouches(UNSUPPORTED_PYTHON, Head(vs))
             THEN <<RangeUnion(UNSUPPORTED_PYTHON, Head(vs))>> \o Tail(vs)
             ELSE vs

\* variant: _eval_platform_constraint without the normalization of win32 and linux2
eval_platform_constraint_no_alias(node) ==
    LET variable == node.lhs
        op == node.op
        value == node.rhs
        platform == Lower(value.value)
    IN  IF variable.value \notin {"platform_system", "sys_platform"}
        THEN MRaise("AssertionError")
        ELSE IF op \notin {"==", "!="} THEN MNone
        ELSE IF platform \in platforms
             THEN MList({PlatformSpec(p) : p \in
                            {q \in platforms : (q # platform /\ op = "!=")
                                                  \/ (q = platform /\ op = "==")}})
             ELSE MBool(op = "!=")

\* _eval_platform_constraint: variable, op, value are the sides of the node it is given
eval_platform_constraint(node) ==
    LET variable == node.lhs
        op == node.op
        value == node.rhs
        lowered == Lower(value.value)
        platform == IF lowered = "win32" THEN "windows"
                    ELSE IF lowered = "linux2" THEN "linux"
                    ELSE lowered
    IN  IF variable.value \notin {"platform_system", "sys_platform"}
        THEN MRaise("AssertionError")
        ELSE IF op \notin {"==", "!="} THEN MNone
        ELSE IF platform \in platforms
             THEN MList({PlatformSpec(p) : p \in
                            {q \in platforms : (q # platform /\ op = "!=")
                                                  \/ (q = platform /\ op = "==")}})
             ELSE MBool(op = "!=")

\* variant: _eval_python_constraint without the comparison with any_version
eval_python_constraint_no_any(node) ==
    LET op == node.op
        value == node.rhs
        Simplified(simplified) ==
            IF simplified = <<>> THEN MFalse
            ELSE MList({PythonSpec(simplified)})
        With(versions) ==
            IF versions.kind = "None" THEN MNone
            ELSE IF versions.kind # "ok" THEN MRaise(versions.kind)
            ELSE Simplified(simplify_python_constraint(versions.ranges))
    IN  With(eval_python_version_marker(op, value.value))

\* _eval_python_constraint
eval_python_constraint(node) ==
    LET op == node.op
        value == node.rhs
        Simplified(simplified) ==
            IF simplified = <<>> THEN MFalse
            ELSE IF simplified = any_version THEN MTrue
            ELSE MList({PythonSpec(simplified)})
        With(versions) ==
            IF versions.kind = "None" THEN MNone
            ELSE IF versions.kind # "ok" THEN MRaise(versions.kind)
            ELSE Simplified(simplify_python_constraint(versions.ranges))
    IN  With(eval_python_version_marker(op, value.value))

\* the operator table of _eval_constraint; "" stands for a missing entry
FlippedOp(op) ==
    CASE op = ">" -> "<"
      [] op = "<" -> ">"
      [] op = ">=" -> "<="
      [] op = "<=" -> ">="
      [] op = "==" -> "=="
      [] op = "!=" -> "!="
      [] op = "~=" -> "~="
      [] OTHER -> ""

\* _eval_constraint after the flip: the dispatch on the variable; node is the
\* node as it was given, which is what the platform and python evaluators get
eval_dispatch(node, variable, op, value) ==
    IF variable.value \in {"implementation_name", "platform_python_implementation"}
    THEN IF op = "==" THEN MBool(Lower(value.value) = "cpython")
         ELSE IF op = "!=" THEN MBool(Lower(value.value) # "cpython")
         ELSE MNone
    ELSE IF variable.value \in {"platform_system", "sys_platform"}
    THEN eval_platform_constraint(node)
    ELSE IF variable.value \in {"python_version", "python_full_version"}
    THEN eval_python_constraint(node)
    ELSE IF variable.value = "extra"
    THEN IF op = "==" THEN MList({VariantSpec(value.value, TRUE)})
         ELSE IF op = "!=" THEN MList({VariantSpec(value.value, FALSE)})
         ELSE MNone
    ELSE MNone

\* _eval_constraint
eval_constraint(node) ==
    LET flip == node.lhs.kind = "Value" /\ node.rhs.kind = "Variable"
    IN  IF flip /\ FlippedOp(node.op) = "" THEN MNone
        ELSE eval_dispatch(node,
                           IF flip THEN node.rhs ELSE node.lhs,
                           IF flip THEN FlippedOp(node.op) ELSE node.op,
                           IF flip THEN node.lhs ELSE node.rhs)

\* _intersection
intersection(lhs, rhs) ==
    {SpecConstrain(expr, r) : <<expr, r>> \in {p \in lhs \X rhs : SpecIntersects(p[1], p[2])}}

\* _union
union(lhs, rhs) ==
    IF Cardinality(rhs) = 1
          /\ \A r \in rhs : r.variants = {} /\ r.platform = ""
    THEN LET only == CHOOSE r \in rhs : TRUE
         IN  IF only.python = None THEN MRaise("ValueError")
             ELSE MList({[expr EXCEPT !.versions = VersionListUnion(@, only.python)] :
                            expr \in lhs})
    ELSE MList(lhs \cup rhs)

\* lines 535-543: the "and" groups of a list, split at every "or"
RECURSIVE GroupsFrom(_, _, _)
GroupsFrom(items, k, groups) ==
    IF k > Len(items) THEN groups
    ELSE IF items[k].op = "or"
         THEN GroupsFrom(items, k + 1, Append(groups, <<items[k].node>>))
         ELSE GroupsFrom(items, k + 1,
                  [groups EXCEPT ![Len(groups)] = Append(@, items[k].node)])

RECURSIVE do_evaluate_marker(_)
RECURSIVE eval_and(_)
RECURSIVE AndLoop(_, _, _)
RECURSIVE OrLoop(_, _, _)

\* _eval_node
eval_node(node) ==
    IF node.kind = "leaf" THEN eval_constraint(node) ELSE do_evaluate_marker(node.items)

\* variant: the loop of _eval_and with None tested before False
RECURSIVE AndLoopNoneFirst(_, _, _)
AndLoopNoneFirst(group, k, lhs) ==
    LET Step(rhs) ==
            IF Raised(rhs) THEN rhs
            ELSE IF lhs.kind = "None" \/ rhs.kind = "None"
                 THEN AndLoopNoneFirst(group, k + 1, MNone)
            ELSE IF rhs.kind = "False" THEN MFalse
            ELSE IF rhs.kind = "True" THEN AndLoopNoneFirst(group, k + 1, lhs)
            ELSE IF lhs.kind = "True" THEN AndLoopNoneFirst(group, k + 1, rhs)
            ELSE LET Both(both) == IF both = {} THEN MFalse
                                   ELSE AndLoopNoneFirst(group, k + 1, MList(both))
                 IN  Both(intersection(lhs.specs, rhs.specs))
    IN  IF k > Len(group) THEN lhs ELSE Step(eval_node(group[k]))

\* lines 509-523: the terms of a group after the first
AndLoop(group, k, lhs) ==
    LET Step(rhs) ==
            IF Raised(rhs) THEN rhs
            ELSE IF rhs.kind = "False" THEN MFalse
            ELSE IF lhs.kind = "None" \/ rhs.kind = "None" THEN AndLoop(group, k + 1, MNone)
            ELSE IF rhs.kind = "True" THEN AndLoop(group, k + 1, lhs)
            ELSE IF lhs.kind = "True" THEN AndLoop(group, k + 1, rhs)
            ELSE LET Both(both) == IF both = {} THEN MFalse
                                   ELSE AndLoop(group, k + 1, MList(both))
                 IN  Both(intersection(lhs.specs, rhs.specs))
    IN  IF k > Len(group) THEN lhs ELSE Step(eval_node(group[k]))

\* variant: an Unevaluable first term taken as True
eval_and_none_as_true(group) ==
    LET First(lhs) == IF Raised(lhs) THEN lhs
                      ELSE IF lhs.kind = "False" THEN MFalse
                      ELSE AndLoop(group, 2, IF lhs.kind = "None" THEN MTrue ELSE lhs)
    IN  First(eval_node(group[1]))

\* _eval_and
eval_and(group) ==
    LET First(lhs) == IF Raised(lhs) THEN lhs
                      ELSE IF lhs.kind = "False" THEN MFalse
                      ELSE AndLoop(group, 2, lhs)
    IN  First(eval_node(group[1]))

\* variant: the loop of _do_evaluate_marker with None tested before True
RECURSIVE OrLoopNoneFirst(_, _, _)
OrLoopNoneFirst(groups, k, lhs) ==
    LET Joined(joined) ==
            IF Raised(joined) THEN joined ELSE OrLoopNoneFirst(groups, k + 1, joined)
        Step(rhs) ==
            IF Raised(rhs) THEN rhs
            ELSE IF lhs.kind = "None" \/ rhs.kind = "None"
                 THEN OrLoopNoneFirst(groups, k + 1, MNone)
            ELSE IF rhs.kind = "True" THEN MTrue
            ELSE IF lhs.kind = "False" THEN OrLoopNoneFirst(groups, k + 1, rhs)
            ELSE IF rhs.kind # "False" THEN Joined(union(lhs.specs, rhs.specs))
            ELSE OrLoopNoneFirst(groups, k + 1, lhs)
    IN  IF k > Len(groups) THEN lhs ELSE Step(eval_and(groups[k]))

\* lines 548-558: the groups after the first
OrLoop(groups, k, lhs) ==
    LET Joined(joined) == IF Raised(joined) THEN joined ELSE OrLoop(groups, k + 1, joined)
        Step(rhs) ==
            IF Raised(rhs) THEN rhs
            ELSE IF rhs.kind = "True" THEN MTrue
            ELSE IF lhs.kind = "None" \/ rhs.kind = "None" THEN OrLoop(groups, k + 1, MNone)
            ELSE IF lhs.kind = "False" THEN OrLoop(groups, k + 1, rhs)
            ELSE IF rhs.kind # "False" THEN Joined(union(lhs.specs, rhs.specs))
            ELSE OrLoop(groups, k + 1, lhs)
    IN  IF k > Len(groups) THEN lhs ELSE Step(eval_and(groups[k]))

\* _do_evaluate_marker
do_evaluate_marker(items) ==
    LET Grouped(groups) ==
            LET First(lhs) == IF Raised(lhs) THEN lhs
                              ELSE IF lhs.kind = "True" THEN MTrue
                              ELSE OrLoop(groups, 2, lhs)
            IN  First(eval_and(groups[1]))
    IN  Grouped(GroupsFrom(items, 2, <<(<<items[1].node>>)>>))

\* evaluate_marker(m, provider): m._markers is the list
evaluate_marker(m) == do_evaluate_marker(m)

----------------------------------------------------------------------------
(* conversion_tools.py: convert_requirement.  A packaging Requirement is    *)
(* [name, specifier, marker, extras]: the specifier a SpecifierSet (empty   *)
(* when the requirement has none), the marker None or a _markers list.      *)

Requirement(name, specifier, mark, extras) ==
    [name |-> name, specifier |-> specifier, marker |-> mark, extras |-> extras]

\* pkg_to_spack_name on the names of the model: py- is put before every name but
\* python and the names that have it already (py-cpuinfo, py-tes, py-spy get it again)
pkg_to_spack_name(name) ==
    CASE name = "python" -> "python"
      [] name = "black" -> "py-black"
      [] name = "py-cpuinfo" -> "py-py-cpuinfo"
      [] name = "py-build" -> "py-build"
      [] name = "click" -> "py-click"
      [] name = "tomli" -> "py-tomli"

\* what convert_requirement returns: a list of (dependency spec, when spec) pairs,
\* a ConversionError, or the exception that ended it
Pairs(pairs) == [kind |-> "pairs", pairs |-> pairs]
ConversionError == [kind |-> "ConversionError", pairs |-> {}]
Uncaught(exception) == [kind |-> exception, pairs |-> {}]

\* variant: the rest of the call without the test for an empty version list
ConvertWithAnyList(req, provided, extra, when_spec_list) ==
    LET requirement_spec ==
            [NamedSpec(pkg_to_spack_name(req.name))
                EXCEPT !.variants = {<<e, TRUE>> : e \in req.extras}]
        WithVersions(dep) ==
            IF extra = None
            THEN Pairs({<<dep, when_spec>> : when_spec \in when_spec_list})
            ELSE IF \E when_spec \in when_spec_list :
                       ~SpecIntersects(when_spec, VariantSpec(extra[1], TRUE))
                 THEN Uncaught("UnsatisfiableSpecError")
                 ELSE Pairs({<<dep, SpecConstrain(when_spec, VariantSpec(extra[1], TRUE))>> :
                                when_spec \in when_spec_list})
        With(converted_versions) ==
            IF converted_versions.kind # "ok" THEN Uncaught(converted_versions.kind)
            ELSE WithVersions([requirement_spec EXCEPT !.versions = converted_versions.ranges])
    IN  With(pkg_specifier_set_to_version_list(req.name, req.specifier, provided))

\* lines 647-672: the rest of the call once the when specs are known
ConvertWith(req, provided, extra, when_spec_list) ==
    LET requirement_spec ==
            [NamedSpec(pkg_to_spack_name(req.name))
                EXCEPT !.variants = {<<e, TRUE>> : e \in req.extras}]
        WithVersions(dep) ==
            IF extra = None
            THEN Pairs({<<dep, when_spec>> : when_spec \in when_spec_list})
            ELSE IF \E when_spec \in when_spec_list :
                       ~SpecIntersects(when_spec, VariantSpec(extra[1], TRUE))
                 THEN Uncaught("UnsatisfiableSpecError")
                 ELSE Pairs({<<dep, SpecConstrain(when_spec, VariantSpec(extra[1], TRUE))>> :
                                when_spec \in when_spec_list})
        With(converted_versions) ==
            IF converted_versions.kind # "ok" THEN Uncaught(converted_versions.kind)
            ELSE IF converted_versions.ranges = <<>> THEN ConversionError
            ELSE WithVersions([requirement_spec EXCEPT !.versions = converted_versions.ranges])
    IN  With(pkg_specifier_set_to_version_list(req.name, req.specifier, provided))

\* variant: convert_requirement with a ConversionError for a marker that is False
convert_requirement_false_is_error(req, provided, extra) ==
    LET Evaluated(marker_result) ==
            IF marker_result.kind = "ValueError" THEN ConversionError
            ELSE IF Raised(marker_result) THEN Uncaught(marker_result.kind)
            ELSE IF marker_result.kind = "False" THEN ConversionError
            ELSE ConvertWith(req, provided, extra,
                             IF marker_result.kind = "List" THEN marker_result.specs
                             ELSE {EmptySpec})
    IN  Evaluated(IF req.marker = None THEN MTrue ELSE evaluate_marker(req.marker))

\* convert_requirement(r, provider, from_extra)
\* (a requirement without a marker goes the way of one whose marker is True)
convert_requirement(req, provided, extra) ==
    LET Evaluated(marker_result) ==
            IF marker_result.kind = "ValueError" THEN ConversionError
            ELSE IF Raised(marker_result) THEN Uncaught(marker_result.kind)
            ELSE IF marker_result.kind = "False" THEN Pairs({})
            ELSE ConvertWith(req, provided, extra,
                             IF marker_result.kind = "List" THEN marker_result.specs
                             ELSE {EmptySpec})
    IN  Evaluated(IF req.marker = None THEN MTrue ELSE evaluate_marker(req.marker))

----------------------------------------------------------------------------
(* core.py: dependency conflict detection.  A dependency is the tuple        *)
(* <<dependency spec, when spec, types>>.  The specs of the list are objects: *)
(* what _format_dependency assigns to a when spec stays in the list.          *)

\* the order _format_types sorts the dependency types in
TypeRank(type) ==
    CASE type = "build" -> 1 [] type = "link" -> 2 [] type = "run" -> 3 [] type = "test" -> 4

RECURSIVE SortedTypes(_)
SortedTypes(types) ==
    IF types = {} THEN <<>>
    ELSE LET first == CHOOSE t \in types : \A u \in types : TypeRank(t) <= TypeRank(u)
         IN  <<first>> \o SortedTypes(types \ {first})

\* _format_types: the one type quoted, or the tuple of the sorted types
format_types(types) ==
    IF Cardinality(types) = 1 THEN [quoted |-> CHOOSE t \in types : TRUE]
    ELSE [tuple |-> SortedTypes(types)]

\* _format_dependency: the depends_on statement, as its three parts, and the
\* when spec as the call leaves it: its architecture is set to None
format_dependency(dependency_spec, when_spec, dep_types) ==
    LET with_when == when_spec # EmptySpec
        with_platform == with_when /\ when_spec.platform # ""
        left == IF with_platform THEN [when_spec EXCEPT !.platform = ""] ELSE when_spec
        when_str == IF ~with_when THEN None
                    ELSE <<IF with_platform THEN when_spec.platform ELSE "", left>>
        type_str == IF dep_types # {} THEN <<format_types(dep_types)>> ELSE None
    IN  [statement |-> [prefix |-> dependency_spec, when_str |-> when_str,
                        type_str |-> type_str],
         when_spec |-> left]

DependencyConflictError(first, second) == [msg |-> <<first, second>>]

\* the loops over i and j of one name; idx lists the positions of the name's
\* dependencies in the list
RECURSIVE PairLoop(_, _, _, _, _)
PairLoop(deps, idx, i, j, conflicts) ==
    IF i > Len(idx) THEN [list |-> deps, conflicts |-> conflicts]
    ELSE IF j > Len(idx) THEN PairLoop(deps, idx, i + 1, i + 2, conflicts)
    ELSE LET first == deps[idx[i]]
             second == deps[idx[j]]
         IN  IF SpecIntersects(first[2], second[2]) /\ ~SpecIntersects(first[1], second[1])
             THEN LET dep_str1 == format_dependency(first[1], first[2], first[3])
                      dep_str2 == format_dependency(second[1], second[2], second[3])
                      left == [deps EXCEPT ![idx[i]][2] = dep_str1.when_spec,
                                           ![idx[j]][2] = dep_str2.when_spec]
                  IN  PairLoop(left, idx, i, j + 1,
                               Append(conflicts,
                                      DependencyConflictError(dep_str1.statement,
                                                              dep_str2.statement)))
             ELSE PairLoop(deps, idx, i, j + 1, conflicts)

\* the positions of the dependencies of a name, in the order of the list
PositionsOf(deps, name) ==
    LET Named(k) == deps[k][1].name = name
    IN  SelectSeq([k \in 1..Len(deps) |-> k], Named)

\* the loop over the names
RECURSIVE NameLoop(_, _, _, _)
NameLoop(deps, dependency_names, n, conflicts) ==
    IF n > Len(dependency_names) THEN [list |-> deps, conflicts |-> conflicts]
    ELSE LET done == PairLoop(deps, PositionsOf(deps, dependency_names[n]), 1, 2, conflicts)
         IN  NameLoop(done.list, dependency_names, n + 1, done.conflicts)

\* the names of the list; an anonymous spec has none
NamesOf(deps) == {deps[k][1].name : k \in 1..Len(deps)} \ {""}

\* the orders list(set) can give the names
Orders(names) ==
    {order \in [1..Cardinality(names) -> names] :
        \A a, b \in 1..Cardinality(names) : order[a] = order[b] => a = b}

\* _find_dependency_satisfiability_conflicts, the names taken in the given order:
\* the conflicts it returns, and the list as it leaves it
find_dependency_satisfiability_conflicts(deps, dependency_names) ==
    NameLoop(deps, dependency_names, 1, <<>>)

----------------------------------------------------------------------------
(* The parts of the state a run does not use *)

NoRequirement == [name |-> "", specifier |-> {}, marker |-> None, extras |-> {}]
NotConverted == [kind |-> "none", pairs |-> {}]

IdleCondense == universe = <<>> /\ subset = <<>> /\ vlist = NotCalled
IdleMarker == marker = <<>> /\ marker_eval = [kind |-> "none", specs |-> {}]
IdleConvert ==
    requirement = NoRequirement /\ from_extra = None /\ known = PackageProviderQueryError
        /\ converted = NotConverted
IdleConflicts == dependency_list = <<>> /\ dependency_conflicts = <<>>
IdleProvider == registry = <<>> /\ provider = "" /\ got_versions = NotCalled
IdleLoad == num_versions = 0 /\ unloadable = {} /\ loaded = <<>> /\ metadata = None
IdleRun ==
    /\ world = <<>> /\ max_conversions = 0 /\ queue = <<>> /\ converted_packages = <<>>
    /\ conversion_failures = <<>> /\ repo_packages = {} /\ popped = <<>>
IdlePackage ==
    /\ package_versions = <<>> /\ todo = <<>> /\ calls = <<>>
    /\ specs_to_versions = <<>> /\ specs_to_types = <<>>
    /\ original_dependencies = {} /\ conversion_errors = <<>>
    /\ dependencies_by_type = <<>> /\ cache = <<>>

----------------------------------------------------------------------------
(* Inputs of the condensation: lists of known versions and sublists of them *)

Releases == UNION {[1..n -> 0..MaxSeg] : n \in 1..MaxRelLen}

\* final release, pre-release a1, post-release post1, dev-release dev1
Qualifiers ==
    {[pre |-> None, post |-> None, dev |-> None],
     [pre |-> <<ALPHA, 1>>, post |-> None, dev |-> None],
     [pre |-> None, post |-> <<1>>, dev |-> None],
     [pre |-> None, post |-> None, dev |-> <<1>>]}

Pool == {PvVersion(r, q.pre, q.post, q.dev) : r \in Releases, q \in Qualifiers}

\* get_versions sorts a set of versions: no two of a list are equal in packaging's order
Distinct(U) == \A v \in U, w \in U : PvEq(v, w) => v = w

RECURSIVE SubsetsUpTo(_, _)
SubsetsUpTo(S, k) ==
    IF k = 0 THEN {{}}
    ELSE LET smaller == SubsetsUpTo(S, k - 1)
         IN  smaller \cup {T \cup {x} : T \in smaller, x \in S}

\* the sets of up to MaxUniverse distinct versions of a pool
Universes(pool) == {U \in SubsetsUpTo(pool, MaxUniverse) : U # {} /\ Distinct(U)}

\* a list of the versions of S, ascending or descending
Listed(S, descending) == IF descending THEN Reverse(PvSorted(S)) ELSE PvSorted(S)

InitCondense ==
    /\ pc = "start"
    /\ \E U \in Universes(Pool) : \E S \in (SUBSET U) \ {{}} : \E du \in BOOLEAN, ds \in BOOLEAN :
           /\ universe = Listed(U, du)
           /\ subset = Listed(S, ds)
    /\ vlist = NotCalled
    /\ IdleMarker /\ IdleConvert /\ IdleConflicts /\ IdleProvider /\ IdlePackage /\ IdleLoad /\ IdleRun

\* one call condensed_version_list(subset, universe)
Condense ==
    /\ pc = "start"
    /\ subset # <<>>
    /\ vlist' = condensed_version_list(subset, universe)
    /\ pc' = "condensed"
    /\ UNCHANGED <<universe, subset, varsMarker, varsConvert, varsConflicts, varsProvider, varsPackage,
                   varsLoad, varsRun>>

NextCondense == Condense

SpecCondense == InitCondense /\ [][NextCondense]_vars

----------------------------------------------------------------------------
(* Claims about condensed_version_list *)

\* C1: for every universe of supported-type versions and every non-empty subset of
\* it, in any order, condensed_version_list returns a version list that contains
\* a version of the universe if and only if the version is in the subset.
CondensationSound ==
    pc = "condensed" =>
        /\ vlist.kind = "ok"
        /\ \A v \in Range(universe) :
               Contains(vlist.ranges, packaging_to_spack_version(v)) <=> v \in Range(subset)

\* C21: packaging_to_spack_version preserves the order: of two versions a < b of
\* a list of known versions (epoch 0, no pre-release combined with post or dev),
\* the converted versions that condensed_version_list sorts compare a' < b'; a
\* dev-release is below its release and a final release above its pre-releases.
ConversionPreservesOrder ==
    pc = "condensed" =>
        \A a \in Range(universe), b \in Range(universe) :
            (version_type_supported(a) /\ version_type_supported(b) /\ PvLess(a, b))
                => VLess(packaging_to_spack_version(a), packaging_to_spack_version(b))

\* lines 225-228: the supported versions of a list, converted and sorted
SortedConverted(versions) ==
    LET filtered == SelectSeq(versions, version_type_supported)
    IN  SvSorted([k \in 1..Len(filtered) |-> packaging_to_spack_version(filtered[k])])

\* the places of the sorted universe where a maximal run of subset members starts
RunStarts(sub, all) ==
    {k \in 1..Len(all) :
        all[k] \in Range(sub) /\ (k = 1 \/ all[k - 1] \notin Range(sub))}

\* C24: condensed_version_list emits as many ranges as the sorted universe has
\* maximal runs of consecutive entries that are all in the subset.
OneRangePerRun ==
    pc = "condensed" =>
        /\ vlist.kind = "ok"
        /\ Len(vlist.ranges)
              = Cardinality(RunStarts(SortedConverted(subset), SortedConverted(universe)))

\* C25: whenever condensed_version_list returns its list, the first emitted
\* range has no lower bound exactly when the smallest version of the universe is
\* in the subset, and the last emitted range has no upper bound exactly when the
\* largest version of the universe is in the subset; every other bound is finite.
InfiniteBoundsAtTheEnds ==
    (pc = "condensed" /\ vlist.kind = "ok") =>
        LET sub == SortedConverted(subset)
            all == SortedConverted(universe)
            Finite(v) == v # typemin /\ VLess(v, typemax)
        IN  /\ vlist.ranges # <<>>
            /\ vlist.ranges[1].lo = typemin <=> all[1] \in Range(sub)
            /\ vlist.ranges[Len(vlist.ranges)].hi = next_version(typemax)
                   <=> all[Len(all)] \in Range(sub)
            /\ \A k \in 1..Len(vlist.ranges) :
                   /\ k > 1 => Finite(vlist.ranges[k].lo)
                   /\ k < Len(vlist.ranges) => Finite(vlist.ranges[k].hi)
                   /\ vlist.ranges[k].lo # typemin => Finite(vlist.ranges[k].lo)
                   /\ vlist.ranges[k].hi # next_version(typemax) => Finite(vlist.ranges[k].hi)

\* a returned list of two ranges, the first without a lower bound and the last
\* without an upper bound, around an excluded pre-release
InfiniteBoundsReached ==
    /\ pc = "condensed" /\ vlist.kind = "ok"
    /\ Len(vlist.ranges) = 2
    /\ vlist.ranges[1].lo = typemin
    /\ vlist.ranges[2].hi = next_version(typemax)
    /\ \E v \in Range(universe) : v.pre # None /\ v \notin Range(subset)

\* C28: for two disjoint subsets A and B of the same universe, no version at
\* all is contained both in condensed_version_list(A, U) and in
\* condensed_version_list(B, U).
DisjointSubsetsStayDisjoint ==
    (pc = "condensed" /\ vlist.kind = "ok") =>
        \A B \in (SUBSET (Range(universe) \ Range(subset))) \ {{}} :
            LET Apart(other) ==
                    other.kind = "ok" => ~VersionListIntersects(vlist.ranges, other.ranges)
            IN  Apart(condensed_version_list(PvSorted(B), universe))

----------------------------------------------------------------------------
(* Inputs of the marker evaluation *)

MaxTerms == 3

Operators == {"==", "!=", ">=", "<=", ">", "<", "in", "~="}

\* the (variable, literal) pairs of the leaves, by category of the variable
LeafSides ==
    ({"implementation_name", "platform_python_implementation"}
        \X {"cpython", "CPython", "pypy"})
    \cup ({"platform_system", "sys_platform"}
        \X {"linux", "Linux", "linux2", "win32", "windows", "Windows", "darwin",
            "cray", "freebsd", "obscure_platform"})
    \cup ({"python_version", "python_full_version"} \X (VersionLiterals \cup {"unparsable"}))
    \cup ({"extra"} \X {"test", "docs"})
    \cup ({"os_name"} \X {"posix"})

\* variable op 'literal', and 'literal' op variable
Leaves ==
    {Leaf(Variable(p[1]), op, Value(p[2])) : p \in LeafSides, op \in Operators}
    \cup {Leaf(Value(p[2]), op, Variable(p[1])) : p \in LeafSides, op \in Operators}

\* the nodes of the markers with several terms: one or two leaves of every kind of
\* result, and nested lists
TermLeaves ==
    {Leaf(Variable("implementation_name"), "==", Value("cpython")),
     Leaf(Variable("implementation_name"), "==", Value("pypy")),
     Leaf(Variable("os_name"), "==", Value("posix")),
     Leaf(Variable("sys_platform"), "==", Value("linux")),
     Leaf(Variable("platform_system"), "!=", Value("windows")),
     Leaf(Variable("python_version"), ">=", Value("3.9")),
     Leaf(Variable("python_full_version"), "<", Value("3.9")),
     Leaf(Variable("extra"), "==", Value("test")),
     Leaf(Value("linux"), "==", Variable("sys_platform"))}

NestedNodes ==
    {Nested(<<Item("", Leaf(Variable("sys_platform"), "==", Value("linux"))),
              Item("or", Leaf(Variable("extra"), "==", Value("test")))>>)}

TermNodes == TermLeaves \cup NestedNodes

\* the list of the nodes joined by the operators "and" and "or"
MarkerOf(nodes, ops) ==
    [i \in DOMAIN nodes |-> Item(IF i = 1 THEN "" ELSE ops[i], nodes[i])]

\* a marker of one leaf, or of up to MaxTerms nodes
InitMarker ==
    /\ pc = "start"
    /\ \/ \E leaf \in Leaves : marker = <<Item("", leaf)>>
       \/ \E n \in 1..MaxTerms :
              \E nodes \in [1..n -> TermNodes], ops \in [2..n -> {"and", "or"}] :
                  marker = MarkerOf(nodes, ops)
    /\ marker_eval = [kind |-> "none", specs |-> {}]
    /\ IdleCondense /\ IdleConvert /\ IdleConflicts /\ IdleProvider /\ IdlePackage /\ IdleLoad /\ IdleRun

\* one call evaluate_marker(m, provider)
EvaluateMarker ==
    /\ pc = "start"
    /\ marker # <<>>
    /\ marker_eval' = evaluate_marker(marker)
    /\ pc' = "evaluated"
    /\ UNCHANGED <<marker, varsCondense, varsConvert, varsConflicts, varsProvider, varsPackage,
                   varsLoad, varsRun>>

NextMarker == EvaluateMarker

SpecMarker == InitMarker /\ [][NextMarker]_vars

----------------------------------------------------------------------------
(* Claims about the marker evaluation *)

IsSingleLeaf == Len(marker) = 1 /\ marker[1].node.kind = "leaf"
TheLeaf == marker[1].node

\* C7: a leaf written literal-operator-variable evaluates to the same result as
\* the leaf with the sides swapped and the operator flipped, for every category
\* of variable.
FlippedLeafEquivalent ==
    (/\ pc = "evaluated" /\ IsSingleLeaf
     /\ TheLeaf.lhs.kind = "Value" /\ TheLeaf.rhs.kind = "Variable"
     /\ FlippedOp(TheLeaf.op) # "")
        => marker_eval
             = evaluate_marker(<<Item("", Leaf(TheLeaf.rhs, FlippedOp(TheLeaf.op), TheLeaf.lhs))>>)

\* the platform a literal names, by the claim's normalization, "" when it names none
RecognizedPlatform(text) ==
    CASE text \in {"linux", "Linux", "linux2"} -> "linux"
      [] text \in {"windows", "Windows", "win32"} -> "windows"
      [] text \in {"darwin", "cray", "freebsd"} -> text
      [] OTHER -> ""

IsPlatformLeaf(op) ==
    /\ pc = "evaluated" /\ IsSingleLeaf
    /\ TheLeaf.lhs.kind = "Variable"
    /\ TheLeaf.lhs.value \in {"platform_system", "sys_platform"}
    /\ TheLeaf.op = op
    /\ RecognizedPlatform(TheLeaf.rhs.value) # ""

\* C8: platform_system != p and sys_platform != p for a recognized platform p yield
\* exactly one condition platform=q for each other q of linux, cray, darwin,
\* windows, freebsd and none for p; == p yields exactly the condition platform=p.
PlatformNegationComplete ==
    /\ IsPlatformLeaf("!=") =>
           /\ marker_eval.kind = "List"
           /\ marker_eval.specs =
                  {PlatformSpec(q) : q \in {"linux", "cray", "darwin", "windows", "freebsd"}
                                           \ {RecognizedPlatform(TheLeaf.rhs.value)}}
           /\ Cardinality(marker_eval.specs) = 4
    /\ IsPlatformLeaf("==") =>
           /\ marker_eval.kind = "List"
           /\ marker_eval.specs = {PlatformSpec(RecognizedPlatform(TheLeaf.rhs.value))}

PlatformNegationReached ==
    /\ IsPlatformLeaf("!=")
    /\ TheLeaf.rhs.value = "win32"
    /\ PlatformSpec("windows") \notin marker_eval.specs
    /\ PlatformSpec("linux") \in marker_eval.specs

IsPythonLeaf ==
    /\ pc = "evaluated" /\ IsSingleLeaf
    /\ TheLeaf.lhs.kind = "Variable"
    /\ TheLeaf.lhs.value \in {"python_version", "python_full_version"}
    /\ TheLeaf.op \in {"==", ">", ">=", "<", "<=", "!="}
    /\ TheLeaf.rhs.value \in VersionLiterals

\* the known python releases the leaf's comparison holds for
MatchingPython ==
    {v \in Range(KNOWN_PYTHON_VERSIONS) :
        SpecifierContains(Specifier(TheLeaf.op, ParseVersion(TheLeaf.rhs.value)), v)}

\* C11: a leaf python_version op 'v' or python_full_version op 'v' with one of the
\* operators ==, !=, <, <=, >, >= evaluates to False when no known python release
\* satisfies it, to True when its version list is all versions (every known
\* release satisfies it), and otherwise to exactly one condition, which constrains
\* only the version of python and admits exactly the known releases that satisfy
\* the leaf.
PythonLeafTrichotomy ==
    IsPythonLeaf =>
        IF MatchingPython = {} THEN marker_eval = MFalse
        ELSE IF MatchingPython = Range(KNOWN_PYTHON_VERSIONS) THEN marker_eval = MTrue
        ELSE /\ marker_eval.kind = "List"
             /\ Cardinality(marker_eval.specs) = 1
             /\ \A sp \in marker_eval.specs :
                    /\ sp.python # None
                    /\ sp = PythonSpec(sp.python)
                    /\ sp.python # any_version
                    /\ \A v \in Range(KNOWN_PYTHON_VERSIONS) :
                           Contains(sp.python, packaging_to_spack_version(v))
                               <=> v \in MatchingPython

\* python_version != '3.9.18' gives one condition with two ranges of python
PythonLeafReached ==
    /\ IsPythonLeaf /\ TheLeaf.op = "!=" /\ TheLeaf.rhs.value = "3.9.18"
    /\ marker_eval.kind = "List"
    /\ \E sp \in marker_eval.specs : Len(sp.python) = 2

TopGroups == GroupsFrom(marker, 2, <<(<<marker[1].node>>)>>)

\* C9: if some "or" group of the marker evaluates to True, evaluate_marker returns
\* True, whatever the other groups evaluate to (False, a list, None) and wherever
\* the True group stands.
TrueGroupWins ==
    (/\ pc = "evaluated"
     /\ \E k \in 1..Len(TopGroups) : eval_and(TopGroups[k]).kind = "True"
     /\ \A k \in 1..Len(TopGroups) : ~Raised(eval_and(TopGroups[k])))
        => marker_eval = MTrue

\* a True group after a list group and a None group
TrueGroupReached ==
    /\ pc = "evaluated"
    /\ Len(TopGroups) = 3
    /\ eval_and(TopGroups[1]).kind = "List"
    /\ eval_and(TopGroups[2]).kind = "None"
    /\ eval_and(TopGroups[3]).kind = "True"
    /\ marker_eval = MTrue

\* C10: if some term of an "and" group evaluates to False, the group evaluates to
\* False, whatever the other terms evaluate to (True, a list, None) and wherever
\* the False term stands.  The group is the only group of the marker.
FalseTermWins ==
    (/\ pc = "evaluated"
     /\ Len(TopGroups) = 1
     /\ \E k \in 1..Len(TopGroups[1]) : eval_node(TopGroups[1][k]).kind = "False"
     /\ \A k \in 1..Len(TopGroups[1]) : ~Raised(eval_node(TopGroups[1][k])))
        => marker_eval = MFalse

\* a False term after a None term and a list term
FalseTermReached ==
    /\ pc = "evaluated"
    /\ Len(TopGroups) = 1 /\ Len(TopGroups[1]) = 3
    /\ eval_node(TopGroups[1][1]).kind = "None"
    /\ eval_node(TopGroups[1][2]).kind = "List"
    /\ eval_node(TopGroups[1][3]).kind = "False"
    /\ marker_eval = MFalse

\* the marker is one "and" group with an Unevaluable term and no statically False term
UnevaluableTermNoFalse ==
    /\ pc = "evaluated"
    /\ Len(TopGroups) = 1
    /\ \E k \in 1..Len(TopGroups[1]) : eval_node(TopGroups[1][k]).kind = "None"
    /\ \A k \in 1..Len(TopGroups[1]) : eval_node(TopGroups[1][k]).kind # "False"

\* the place of the first Unevaluable term of the group
FirstUnevaluable ==
    CHOOSE k \in 1..Len(TopGroups[1]) :
        /\ eval_node(TopGroups[1][k]).kind = "None"
        /\ \A n \in 1..(k - 1) : eval_node(TopGroups[1][n]).kind # "None"

\* C23 as stated: within an "and" group, an Unevaluable term makes the whole
\* group Unevaluable unless some term of the group is statically False (read
\* for the evaluations that return).
UnevaluableTermWins ==
    (UnevaluableTermNoFalse /\ ~Raised(marker_eval)) => marker_eval = MNone

\* C23, amended: an "and" group with an Unevaluable term and no statically False
\* term is never True and never a condition list.  It is Unevaluable, unless the
\* condition lists of the terms before the first Unevaluable term have an empty
\* conjunction, which makes the group False before the term is looked at, or
\* the evaluation of a term raises, which ends the evaluation with the exception.
UnevaluableTermWinsUnlessEmpty ==
    UnevaluableTermNoFalse =>
        \/ marker_eval = MNone
        \/ /\ marker_eval = MFalse
           /\ FirstUnevaluable > 1
           /\ eval_and(SubSeq(TopGroups[1], 1, FirstUnevaluable - 1)) = MFalse
        \/ /\ Raised(marker_eval)
           /\ \E k \in 1..Len(TopGroups[1]) : eval_node(TopGroups[1][k]) = marker_eval

\* a group of a condition list, an Unevaluable term and a True term; and a group
\* that is False because two python conditions exclude each other before the
\* Unevaluable term
UnevaluableTermReached ==
    /\ UnevaluableTermNoFalse
    /\ Len(TopGroups[1]) = 3
    /\ \/ /\ eval_node(TopGroups[1][1]).kind = "List"
          /\ eval_node(TopGroups[1][2]).kind = "None"
          /\ eval_node(TopGroups[1][3]).kind = "True"
          /\ marker_eval = MNone
       \/ /\ eval_node(TopGroups[1][1]).kind = "List"
          /\ eval_node(TopGroups[1][2]).kind = "List"
          /\ eval_node(TopGroups[1][3]).kind = "None"
          /\ marker_eval = MFalse

\* the environments a condition is about: a platform, the extras that are
\* enabled, the version of python
Environments ==
    [platform : platforms, extras : SUBSET {"test"}, python : Range(KNOWN_PYTHON_VERSIONS)]

\* the environment satisfies the condition
EnvSatisfies(env, condition) ==
    /\ condition.platform # "" => condition.platform = env.platform
    /\ \A variant \in condition.variants : (variant[1] \in env.extras) <=> variant[2]
    /\ condition.python # None
           => Contains(condition.python, packaging_to_spack_version(env.python))

\* C27: for the condition lists L and R of the two "or" groups of a marker, an
\* environment satisfies some alternative of the result of evaluate_marker if and
\* only if it satisfies some alternative of L or some alternative of R.
UnionKeepsAlternatives ==
    (/\ pc = "evaluated"
     /\ Len(TopGroups) = 2
     /\ eval_and(TopGroups[1]).kind = "List"
     /\ eval_and(TopGroups[2]).kind = "List")
        => /\ marker_eval.kind = "List"
           /\ \A env \in Environments :
                  (\E condition \in marker_eval.specs : EnvSatisfies(env, condition))
                      <=> \E condition \in eval_and(TopGroups[1]).specs
                                             \cup eval_and(TopGroups[2]).specs :
                              EnvSatisfies(env, condition)


----------------------------------------------------------------------------
(* Inputs of the requirement conversion *)

MaxClauses == 2

Release2(major, minor) == PvVersion(<<major, minor>>, None, None, None)

\* the known versions 1.0, 1.1, 1.2, 2.0 of a dependency
ExampleVersions == <<Release2(1, 0), Release2(1, 1), Release2(1, 2), Release2(2, 0)>>

\* known versions with a pre-release: 1.0, 1.1a1
PrereleaseVersions == <<Release2(1, 0), PvVersion(<<1, 1>>, <<ALPHA, 1>>, None, None)>>

\* what the provider knows of the dependency "black"
KnownVersions ==
    {PackageProviderQueryError, ProviderVersions(ExampleVersions),
     ProviderVersions(PrereleaseVersions)}

\* the clauses compare with 1.0, 1.1 or 2.0; a specifier set has up to MaxClauses
\* of them
Clauses ==
    {Specifier(op, v) : op \in {"==", "!=", ">=", "<=", "<", ">"},
                        v \in {Release2(1, 0), Release2(1, 1), Release2(2, 0)}}

SpecifierSets(clauses) == SubsetsUpTo(clauses, MaxClauses)

\* no marker, or a marker of one leaf
RequirementMarkers ==
    {None} \cup {<<Item("", leaf)>> :
                    leaf \in TermLeaves \cup {Leaf(Variable("extra"), "!=", Value("test"))}}

Requirements(names) ==
    {Requirement(name, specifier_set, mark, extras) :
        name \in names, specifier_set \in SpecifierSets(Clauses),
        mark \in RequirementMarkers, extras \in {{}, {"d"}}}

InitConvert ==
    /\ pc = "start"
    /\ \/ /\ requirement \in Requirements({"black", "python"})
          /\ from_extra \in {None, <<"test">>}
          /\ known \in KnownVersions
          /\ requirement.name = "python" => known = PackageProviderQueryError
          /\ converted = NotConverted
          /\ IdleCondense
       \/ /\ universe = ExampleVersions
          /\ \E S \in (SUBSET Range(ExampleVersions)) \ {{}} : \E ds \in BOOLEAN :
                 subset = Listed(S, ds)
          /\ vlist = NotCalled
          /\ IdleConvert
    /\ IdleMarker /\ IdleConflicts /\ IdleProvider /\ IdlePackage /\ IdleLoad /\ IdleRun

\* one call convert_requirement(requirement, provider, from_extra); the marker
\* evaluation and the condensation it calls leave their arguments and results in
\* marker, marker_eval and universe, subset, vlist
ConvertRequirement ==
    /\ pc = "start"
    /\ requirement # NoRequirement
    /\ converted' = convert_requirement(requirement, known, from_extra)
    /\ LET Matches(v) == SpecifierSetContains(requirement.specifier, v)
           Calls(evaluated, all_versions, matching) ==
               /\ IF requirement.marker = None THEN UNCHANGED varsMarker
                  ELSE marker' = requirement.marker /\ marker_eval' = evaluated
               /\ IF Raised(evaluated) \/ evaluated.kind = "False" \/ matching = <<>>
                  THEN UNCHANGED varsCondense
                  ELSE /\ universe' = all_versions
                       /\ subset' = matching
                       /\ vlist' = condensed_version_list(matching, all_versions)
           Known(all_versions) ==
               Calls(IF requirement.marker = None THEN MTrue
                     ELSE evaluate_marker(requirement.marker),
                     all_versions, SelectSeq(all_versions, Matches))
       IN  Known(IF requirement.name = "python" THEN get_python_versions ELSE known.versions)
    /\ pc' = "converted"
    /\ UNCHANGED <<requirement, from_extra, known, varsConflicts, varsProvider, varsPackage,
                   varsLoad, varsRun>>

NextConvert == ConvertRequirement \/ Condense

SpecConvert == InitConvert /\ [][NextConvert]_vars

----------------------------------------------------------------------------
(* Claims about the requirement conversion *)

\* versions are known and the specifier is satisfied by none of them
NoKnownVersionMatches ==
    LET all_versions == IF requirement.name = "python"
                        THEN ProviderVersions(get_python_versions) ELSE known
    IN  /\ ~all_versions.error
        /\ \A k \in 1..Len(all_versions.versions) :
               ~SpecifierSetContains(requirement.specifier, all_versions.versions[k])

\* what the marker of the requirement evaluates to; a requirement without a
\* marker is converted as one whose marker is True
MarkerResult ==
    IF requirement.marker = None THEN MTrue ELSE evaluate_marker(requirement.marker)

\* C2 as stated: whenever the specifier is satisfied by none of the dependency's
\* known versions, convert_requirement returns a ConversionError.
UnsatisfiableIsConversionError ==
    (pc = "converted" /\ NoKnownVersionMatches) => converted = ConversionError

\* C2, amended: whenever the specifier is satisfied by none of the known versions,
\* convert_requirement returns no dependency pair.  It returns a ConversionError,
\* unless the marker of the requirement evaluates to False, when it returns the
\* empty list before it looks at the specifier, or the evaluation of the marker
\* ends with an exception, which ends the call.
UnsatisfiableNeverConverted ==
    LET Expected(marker_result) ==
            IF marker_result.kind = "False" THEN Pairs({})
            ELSE IF Raised(marker_result) /\ marker_result.kind # "ValueError"
                 THEN Uncaught(marker_result.kind)
            ELSE ConversionError
    IN  (pc = "converted" /\ NoKnownVersionMatches) => converted = Expected(MarkerResult)

\* >2.0 over the known versions 1.0 .. 2.0, under a marker that gives a list
UnsatisfiableReached ==
    /\ pc = "converted" /\ NoKnownVersionMatches
    /\ known = ProviderVersions(ExampleVersions)
    /\ requirement.specifier = {Specifier(">", Release2(2, 0))}
    /\ MarkerResult.kind = "List"
    /\ converted = ConversionError

\* C3: when the marker of the requirement evaluates to None, convert_requirement
\* returns a ConversionError and no dependency pairs.
UnevaluableIsConversionError ==
    (pc = "converted" /\ MarkerResult.kind = "None") => converted = ConversionError

\* the version list @1.1:1 of the target scheme: the one range from 1.1 up to,
\* not including, the version after 1
ExampleRange ==
    <<ClosedOpenRange(StandardVersion(<<1, 1>>, <<FINAL>>), StandardVersion(<<2>>, <<FINAL>>))>>

\* final releases around the example's versions, to probe a bound with
Probes == {PvVersion(r, None, None, None) : r \in UNION {[1..n -> 0..3] : n \in 1..3}}

Alternatives ==
    IF MarkerResult.kind = "List" THEN MarkerResult.specs
    ELSE IF MarkerResult.kind = "False" THEN {}
    ELSE {EmptySpec}

Requiring(when_spec, extra) == [when_spec EXCEPT !.variants = @ \cup {<<extra, TRUE>>}]

\* C13: when from_extra is given, the conditions of the returned pairs are exactly
\* the alternatives of the marker, each with the variant +from_extra added to what
\* it had, and there are as many pairs as alternatives (one when there is no marker).
FromExtraConjoined ==
    (pc = "converted" /\ from_extra # None /\ converted.kind = "pairs"
        /\ MarkerResult.kind # "None")
        => /\ {pair[2] : pair \in converted.pairs}
                 = {Requiring(alt, from_extra[1]) : alt \in Alternatives}
           /\ \A pair \in converted.pairs : <<from_extra[1], TRUE>> \in pair[2].variants
           /\ Cardinality(converted.pairs) = Cardinality(Alternatives)
           /\ requirement.marker = None => Cardinality(converted.pairs) = 1

\* platform_system != 'windows' from the extra test: four pairs, each with +test
\* and its platform
FromExtraReached ==
    /\ pc = "converted" /\ from_extra = <<"test">> /\ converted.kind = "pairs"
    /\ Cardinality(converted.pairs) = 4
    /\ \E pair \in converted.pairs :
           pair[2].platform = "linux" /\ pair[2].variants = {<<"test", TRUE>>}

\* C18: convert_requirement ends by returning a list of pairs or a ConversionError,
\* never with an uncaught exception or a failed assertion.
ConversionNeverRaises ==
    pc = "converted" /\ requirement # NoRequirement
        => converted.kind \in {"pairs", "ConversionError"}


----------------------------------------------------------------------------
(* Inputs of the conflict detection *)

MaxDeps == 3

Point(major, minor) == StandardVersion(<<major, minor>>, <<FINAL>>)

\* the version lists @:a.b and @a.b:
UpTo(major, minor) == <<VersionRange(typemin, Point(major, minor))>>
From(major, minor) == <<VersionRange(Point(major, minor), typemax)>>

Versioned(name, versions) == [NamedSpec(name) EXCEPT !.versions = versions]

\* pkg@:4.2, pkg@4.3:, pkg@4.2:, other@:4.2, other@4.3: and the empty spec
DependencySpecs ==
    {Versioned("pkg", UpTo(4, 2)), Versioned("pkg", From(4, 3)), Versioned("pkg", From(4, 2)),
     Versioned("other", UpTo(4, 2)), Versioned("other", From(4, 3)), EmptySpec}

\* no condition, platform=windows, platform=linux, ^python@:3.9, ^python@3.9:,
\* ^python@:3.8 platform=windows
WhenSpecs ==
    {EmptySpec, PlatformSpec("windows"), PlatformSpec("linux"),
     PythonSpec(UpTo(3, 9)), PythonSpec(From(3, 9)),
     [PythonSpec(UpTo(3, 8)) EXCEPT !.platform = "windows"]}

\* the lists of up to MaxDeps dependencies
DependencyLists(when_specs) ==
    UNION {[1..n -> {<<dep, when_spec, {"build", "run"}>> :
                        dep \in DependencySpecs, when_spec \in when_specs}] : n \in 0..MaxDeps}

InitConflicts ==
    /\ pc = "start"
    /\ dependency_list \in DependencyLists(WhenSpecs)
    /\ dependency_conflicts = <<>>
    /\ IdleCondense /\ IdleMarker /\ IdleConvert /\ IdleProvider /\ IdlePackage /\ IdleLoad /\ IdleRun

\* one call _find_dependency_satisfiability_conflicts(dependency_list)
FindConflicts ==
    /\ pc = "start"
    /\ \E dependency_names \in Orders(NamesOf(dependency_list)) :
           LET done == find_dependency_satisfiability_conflicts(dependency_list, dependency_names)
           IN  /\ dependency_list' = done.list
               /\ dependency_conflicts' = done.conflicts
    /\ pc' = "checked"
    /\ UNCHANGED <<varsCondense, varsMarker, varsConvert, varsProvider, varsPackage,
                   varsLoad, varsRun>>

NextConflicts == FindConflicts

SpecConflicts == InitConflicts /\ [][NextConflicts]_vars

----------------------------------------------------------------------------
(* Claims about the conflict detection *)

\* the pairs of positions of a list that the claim calls conflicting
ConflictingPairs(deps) ==
    {p \in (1..Len(deps)) \X (1..Len(deps)) :
        /\ p[1] < p[2]
        /\ deps[p[1]][1].name # "" /\ deps[p[1]][1].name = deps[p[2]][1].name
        /\ SpecIntersects(deps[p[1]][2], deps[p[2]][2])
        /\ ~SpecIntersects(deps[p[1]][1], deps[p[2]][1])}

\* C4: for a list of any length the call reports exactly one error for each
\* unordered pair of dependencies with the same name, intersecting when specs and
\* dependency specs that do not intersect, and nothing for any other pair: there
\* are as many errors as such pairs, and every error names the dependency specs
\* of one of them.
OneErrorPerConflictingPair ==
    [][(pc = "start" /\ pc' = "checked") =>
          /\ Len(dependency_conflicts') = Cardinality(ConflictingPairs(dependency_list))
          /\ \A k \in 1..Len(dependency_conflicts') :
                 \E p \in ConflictingPairs(dependency_list) :
                     /\ dependency_conflicts'[k].msg[1].prefix = dependency_list[p[1]][1]
                     /\ dependency_conflicts'[k].msg[2].prefix = dependency_list[p[2]][1]]_vars

\* C5: the call leaves every (dependency spec, when spec, types) of its input
\* unchanged, whether or not it finds conflicts.
ConflictCheckIsPure ==
    [][(pc = "start" /\ pc' = "checked") => dependency_list' = dependency_list]_vars

----------------------------------------------------------------------------
(* package_providers.py: the versions a provider reports.  The registry     *)
(* answers with a list of distinct strings (the keys of PyPI's "versions",  *)
(* the tag names of the GitHub releases) or with an error.                  *)

MaxTags == 3

\* packaging.version.parse on the strings of the model; None for InvalidVersion
vn_parse(text) ==
    CASE text \in {"1.0", "v1.0"} -> PvVersion(<<1, 0>>, None, None, None)
      [] text = "1.0.0" -> PvVersion(<<1, 0, 0>>, None, None, None)
      [] text = "1.1a1" -> PvVersion(<<1, 1>>, <<ALPHA, 1>>, None, None)
      [] text = "1.1a1.post0" -> PvVersion(<<1, 1>>, <<ALPHA, 1>>, <<0>>, None)
      [] text = "1.1a1.post1" -> PvVersion(<<1, 1>>, <<ALPHA, 1>>, <<1>>, None)
      [] text = "2.0" -> PvVersion(<<2, 0>>, None, None, None)
      [] OTHER -> None

\* the truth value Python gives v.post and v.dev: None and 0 are false
Truthy(number) == number # None /\ number # <<0>>

\* _parse_packaging_version
parse_packaging_version(version) ==
    LET v == vn_parse(version)
    IN  IF v = None THEN None
        ELSE IF ~(v.pre # None /\ (Truthy(v.post) \/ Truthy(v.dev))) THEN v
        ELSE None

\* GitHubProvider._parse_version_from_tag: tag[1:] of the tags that start with v
parse_version_from_tag(tag) == vn_parse(IF tag = "v1.0" THEN "1.0" ELSE tag)

\* sorted(list): stable insertion in packaging's order, equal versions all kept
RECURSIVE PvSortedList(_)
PvSortedList(seq) ==
    IF seq = <<>> THEN <<>>
    ELSE LET rest == PvSortedList(SubSeq(seq, 1, Len(seq) - 1))
             v == seq[Len(seq)]
             before == SelectSeq(rest, LAMBDA w : ~PvLess(v, w))
             after == SelectSeq(rest, LAMBDA w : PvLess(v, w))
         IN  before \o <<v>> \o after

\* the set comprehension of PyPIProvider.get_versions: of equal versions the
\* first one stays
RECURSIVE ParsedSet(_, _)
ParsedSet(strings, seen) ==
    IF strings = <<>> THEN seen
    ELSE LET vv == parse_packaging_version(Head(strings))
         IN  ParsedSet(Tail(strings),
                       IF vv = None \/ \E k \in 1..Len(seen) : PvEq(seen[k], vv)
                       THEN seen ELSE Append(seen, vv))

\* PyPIProvider.get_versions; data is what _get returned
pypi_get_versions(data) ==
    IF data.error THEN PackageProviderQueryError
    ELSE LET result == PvSortedList(ParsedSet(data.versions, <<>>))
         IN  IF result = <<>> THEN PackageProviderQueryError ELSE ProviderVersions(result)

\* GitHubProvider._get_versions_with_urls and get_versions; releases is what _get returned
github_get_versions(releases) ==
    IF releases.error THEN PackageProviderQueryError
    ELSE LET Parsed(k) == parse_version_from_tag(releases.versions[k])
             versions_with_urls ==
                 SelectSeq([k \in 1..Len(releases.versions) |-> Parsed(k)],
                           LAMBDA v : v # None)
         IN  IF versions_with_urls = <<>> THEN PackageProviderQueryError
             ELSE ProviderVersions(PvSortedList(versions_with_urls))

\* the strings a registry reports
VersionStrings ==
    {"1.0", "v1.0", "1.0.0", "1.1a1", "1.1a1.post0", "1.1a1.post1", "2.0", "nightly"}

RECURSIVE DistinctSeqs(_, _)
DistinctSeqs(S, n) ==
    IF n = 0 THEN {<<>>}
    ELSE LET shorter == DistinctSeqs(S, n - 1)
         IN  shorter \cup {Append(q, x) : <<q, x>> \in {p \in shorter \X S :
                                                         /\ Len(p[1]) = n - 1
                                                         /\ p[2] \notin Range(p[1])}}

InitProvider ==
    /\ pc = "start"
    /\ provider \in {"pypi", "github"}
    /\ \/ registry = PackageProviderQueryError
       \/ \E strings \in DistinctSeqs(VersionStrings, MaxTags) :
              registry = ProviderVersions(strings)
    /\ got_versions = NotCalled
    /\ IdleCondense /\ IdleMarker /\ IdleConvert /\ IdleConflicts /\ IdlePackage /\ IdleLoad /\ IdleRun

\* one call provider.get_versions(name)
GetVersions ==
    /\ pc = "start"
    /\ provider # ""
    /\ got_versions' = IF provider = "pypi" THEN pypi_get_versions(registry)
                       ELSE github_get_versions(registry)
    /\ pc' = "listed"
    /\ UNCHANGED <<registry, provider, varsCondense, varsMarker, varsConvert, varsConflicts,
                   varsPackage,
                   varsLoad, varsRun>>

NextProvider == GetVersions

SpecProvider == InitProvider /\ [][NextProvider]_vars

\* C19: for both providers get_versions returns an error or a non-empty, strictly
\* ascending (so duplicate-free) list without a version that combines a
\* pre-release with a post or dev segment.
VersionsWellFormed ==
    (pc = "listed" /\ ~got_versions.error) =>
        /\ got_versions.versions # <<>>
        /\ \A i \in 1..Len(got_versions.versions), j \in 1..Len(got_versions.versions) :
               i < j => PvLess(got_versions.versions[i], got_versions.versions[j])
        /\ \A k \in 1..Len(got_versions.versions) :
               LET v == got_versions.versions[k]
               IN  ~(v.pre # None /\ (v.post # None \/ v.dev # None))

----------------------------------------------------------------------------
(* core.py: SpackPyPkg, the dependency record.  A dict is the list of its    *)
(* entries [key, value] in the order they were inserted; a key of the two    *)
(* records is the pair <<dependency spec, when spec>>.  pkg is the record of *)
(* the fields the calls change.                                              *)

\* the position of a key in a dict, 0 when it is not in it
KeyIndex(dict, key) ==
    IF \E k \in 1..Len(dict) : dict[k].key = key
    THEN CHOOSE k \in 1..Len(dict) : dict[k].key = key
    ELSE 0

\* dict[key] = empty for a key the dict does not have
WithKey(dict, key, empty) ==
    IF KeyIndex(dict, key) = 0 THEN Append(dict, [key |-> key, value |-> empty]) ELSE dict

\* one argument list of _requirement_from_pyproject
Call(r, dependency_types, pyproject_version, extra) ==
    [r |-> r, dependency_types |-> dependency_types,
     pyproject_version |-> pyproject_version, from_extra |-> extra]

\* variant: the loop with the types of the call assigned instead of added
RECURSIVE SpecLoopLastTypes(_, _, _, _, _)
SpecLoopLastTypes(versions_dict, types_dict, spec_list, k, call) ==
    IF k > Len(spec_list)
    THEN [specs_to_versions |-> versions_dict, specs_to_types |-> types_dict]
    ELSE LET specs == spec_list[k]
             Appended(dict) ==
                 [dict EXCEPT ![KeyIndex(dict, specs)].value =
                                   Append(@, call.pyproject_version)]
             Added(dict) ==
                 [dict EXCEPT ![KeyIndex(dict, specs)].value = Range(call.dependency_types)]
         IN  SpecLoopLastTypes(Appended(WithKey(versions_dict, specs, <<>>)),
                               Added(WithKey(types_dict, specs, {})),
                               spec_list, k + 1, call)

\* lines 502-515: the loop over the pairs convert_requirement returned
RECURSIVE SpecLoop(_, _, _, _, _)
SpecLoop(versions_dict, types_dict, spec_list, k, call) ==
    IF k > Len(spec_list)
    THEN [specs_to_versions |-> versions_dict, specs_to_types |-> types_dict]
    ELSE LET specs == spec_list[k]
             Appended(dict) ==
                 [dict EXCEPT ![KeyIndex(dict, specs)].value =
                                   Append(@, call.pyproject_version)]
             Added(dict) ==
                 [dict EXCEPT ![KeyIndex(dict, specs)].value =
                                   @ \cup Range(call.dependency_types)]
         IN  SpecLoop(Appended(WithKey(versions_dict, specs, <<>>)),
                      Added(WithKey(types_dict, specs, {})),
                      spec_list, k + 1, call)

\* dependency_conversion_errors[str(pyproject_version)].append(spec_list)
AppendError(errors, pyproject_version, error) ==
    [v \in DOMAIN errors \cup {pyproject_version} |->
        IF v = pyproject_version
        THEN (IF v \in DOMAIN errors THEN errors[v] ELSE <<>>) \o <<error>>
        ELSE errors[v]]

\* variant: _requirement_from_pyproject that stores the dependency name before
\* it looks at what convert_requirement returned
requirement_from_pyproject_name_first(pkg, call, spec_list, ordered) ==
    IF spec_list.kind = "ConversionError"
    THEN [pkg EXCEPT !.original_dependencies = @ \cup {call.r.name},
                     !.conversion_errors =
                         AppendError(@, call.pyproject_version, [requirement |-> call.r])]
    ELSE LET looped == SpecLoop(pkg.specs_to_versions, pkg.specs_to_types, ordered, 1, call)
         IN  [pkg EXCEPT !.original_dependencies = @ \cup {call.r.name},
                         !.specs_to_versions = looped.specs_to_versions,
                         !.specs_to_types = looped.specs_to_types]

\* _requirement_from_pyproject once convert_requirement has returned spec_list,
\* a ConversionError or the pairs in the order of the list
requirement_from_pyproject(pkg, call, spec_list, ordered) ==
    IF spec_list.kind = "ConversionError"
    THEN [pkg EXCEPT !.conversion_errors =
                         AppendError(@, call.pyproject_version, [requirement |-> call.r])]
    ELSE LET looped == SpecLoop(pkg.specs_to_versions, pkg.specs_to_types, ordered, 1, call)
         IN  [pkg EXCEPT !.original_dependencies = @ \cup {call.r.name},
                         !.specs_to_versions = looped.specs_to_versions,
                         !.specs_to_types = looped.specs_to_types]

\* lines 454-459 of _combine_dependencies: the loop over _specs_to_versions; it
\* ends with the final dependency list or with the exception of the condensation
RECURSIVE CombineLoop(_, _, _, _, _)
CombineLoop(versions_dict, types_dict, all, k, final_dependency_list) ==
    IF k > Len(versions_dict) THEN [kind |-> "ok", list |-> final_dependency_list]
    ELSE LET dep_spec == versions_dict[k].key[1]
             when_spec == versions_dict[k].key[2]
             types == types_dict[KeyIndex(types_dict, versions_dict[k].key)].value
             Condensed(versions_condensed) ==
                 IF versions_condensed.kind # "ok"
                 THEN [kind |-> versions_condensed.kind, list |-> final_dependency_list]
                 ELSE CombineLoop(versions_dict, types_dict, all, k + 1,
                                  Append(final_dependency_list,
                                         <<dep_spec,
                                           [when_spec EXCEPT !.versions = versions_condensed.ranges],
                                           types>>))
         IN  Condensed(condensed_version_list(versions_dict[k].value, all))

\* lines 470-479: the dependencies by their type string, in the order of the list
by_type(final_dependency_list) ==
    [canonical_typestring \in {format_types(d[3]) : d \in Range(final_dependency_list)} |->
        LET Typed(d) == format_types(d[3]) = canonical_typestring
            typed == SelectSeq(final_dependency_list, Typed)
        IN  [k \in 1..Len(typed) |-> <<typed[k][1], typed[k][2]>>]]

\* the keys of a dict after the assignments to the when specs of the list: the
\* specs of the keys are the objects of the list
Rekeyed(dict, final_dependency_list) ==
    [k \in 1..Len(dict) |->
        IF k <= Len(final_dependency_list)
        THEN [dict[k] EXCEPT !.key = <<final_dependency_list[k][1], final_dependency_list[k][2]>>]
        ELSE dict[k]]

----------------------------------------------------------------------------
(* conversion_tools.py: the memo functools.cache keeps for                   *)
(* _pkg_specifier_set_to_version_list.  A key is <<pkg, specifier_set>> (the *)
(* provider is the same in all calls); the value is the VersionList object   *)
(* every call with the key returns.                                          *)

\* what the provider knows of the names of the model
ProviderKnows(name) ==
    IF name = "black" THEN ProviderVersions(ExampleVersions) ELSE PackageProviderQueryError

\* a call through the memo
Memoized(memo, key) ==
    IF key \in DOMAIN memo THEN memo[key]
    ELSE pkg_specifier_set_to_version_list(key[1], key[2], ProviderKnows(key[1]))

\* the memo after a call that returned value; an exception is not kept
Stored(memo, key, value) ==
    IF value.kind # "ok" THEN memo
    ELSE [k \in DOMAIN memo \cup {key} |-> IF k = key THEN value ELSE memo[k]]

\* the keys _eval_python_version_marker calls the memo with for the marker of r
\* (None or one leaf)
MarkerKeys(r) ==
    IF r.marker = None THEN {}
    ELSE LET node == r.marker[1].node
         IN  IF /\ Len(r.marker) = 1 /\ node.kind = "leaf"
                /\ node.lhs.kind = "Variable"
                /\ node.lhs.value \in {"python_version", "python_full_version"}
                /\ node.op \in {"==", ">", ">=", "<", "<=", "!="}
                /\ node.rhs.value \in VersionLiterals
             THEN {<<"python", {Specifier(node.op, ParseVersion(node.rhs.value))}>>}
             ELSE {}

\* lines 375-376: the version list of the marker is taken from the memo and
\* simplified in place, so the memo holds the simplified list
RECURSIVE AfterMarker(_, _)
AfterMarker(memo, keys) ==
    IF keys = {} THEN memo
    ELSE LET key == CHOOSE k \in keys : TRUE
             Simplified(value) ==
                 IF value.kind # "ok" THEN value
                 ELSE Ok(simplify_python_constraint(value.ranges))
         IN  AfterMarker(Stored(memo, key, Simplified(Memoized(memo, key))), keys \ {key})

\* the memo after convert_requirement(r, ...): line 654 is reached unless the
\* marker is False or its evaluation raised
AfterConversion(memo, r, marker_result) ==
    LET Reached(after_marker) ==
            IF Raised(marker_result) \/ marker_result.kind = "False" THEN after_marker
            ELSE Stored(after_marker, <<r.name, r.specifier>>,
                        Memoized(after_marker, <<r.name, r.specifier>>))
    IN  Reached(AfterMarker(memo, MarkerKeys(r)))

----------------------------------------------------------------------------
(* Inputs of the package conversion: the releases of the package, and the    *)
(* calls _dependencies_from_pyprojects makes for the pyprojects              *)

MaxCalls == 2

Release1(major) == PvVersion(<<major>>, None, None, None)

\* the releases 1, 2, 3, or 1.0 and the pre-release 1.1a1
PackageVersions == {<<Release1(1), Release1(2), Release1(3)>>, PrereleaseVersions}

LeafMarker(variable, op, value) == <<Item("", Leaf(Variable(variable), op, Value(value)))>>

\* black>=1.1; black>=1.1; sys_platform == 'linux'; black>2.0 (no known version);
\* black; implementation_name == 'pypy' (False); black; python_version >= '3.9';
\* python>=3.9; black; 'linux' == sys_platform (raises)
PackageRequirements ==
    {Requirement("black", {Specifier(">=", Release2(1, 1))}, None, {}),
     Requirement("black", {Specifier(">=", Release2(1, 1))},
                 LeafMarker("sys_platform", "==", "linux"), {}),
     Requirement("black", {Specifier(">", Release2(2, 0))}, None, {}),
     Requirement("black", {}, LeafMarker("implementation_name", "==", "pypy"), {}),
     Requirement("black", {}, LeafMarker("python_version", ">=", "3.9"), {}),
     Requirement("python", {Specifier(">=", Release2(3, 9))}, None, {}),
     Requirement("black", {},
                 <<Item("", Leaf(Value("linux"), "==", Variable("sys_platform")))>>, {})}

\* build_requires and dependencies hold any of the requirements,
\* optional_dependencies["test"] those without a marker
CallsOf(releases) ==
    {Call(r, dependency_types, v, None) :
        r \in PackageRequirements,
        dependency_types \in {<<"build">>, <<"build", "run">>},
        v \in releases}
    \cup {Call(r, <<"build", "run">>, v, <<"test">>) :
              r \in {q \in PackageRequirements : q.marker = None},
              v \in releases}

\* the pyprojects are those of reversed(version_list), each release once; the
\* calls of one release are its build_requires first, then its dependencies,
\* then its optional_dependencies
ByRelease(sequence, version_list) ==
    LET Place(call) == IF call.from_extra # None THEN 3
                       ELSE IF call.dependency_types = <<"build">> THEN 1 ELSE 2
        Position(v) == CHOOSE k \in 1..Len(version_list) : version_list[k] = v
    IN  \A i, j \in 1..Len(sequence) :
            i < j => \/ Position(sequence[i].pyproject_version)
                           > Position(sequence[j].pyproject_version)
                     \/ /\ sequence[i].pyproject_version = sequence[j].pyproject_version
                        /\ Place(sequence[i]) <= Place(sequence[j])

Package ==
    [specs_to_versions |-> specs_to_versions, specs_to_types |-> specs_to_types,
     original_dependencies |-> original_dependencies, conversion_errors |-> conversion_errors]

\* a new SpackPyPkg with its all_versions set and the calls to make; or the
\* record of test_spackpypkg_combine_dependencies: the releases 1..10, one key
\* recorded for 1, 2, 3, 7, 8
InitPackage ==
    /\ pc = "start"
    /\ \/ /\ package_versions \in PackageVersions
          /\ \E n \in 0..MaxCalls : \E sequence \in [1..n -> CallsOf(Range(package_versions))] :
                 ByRelease(sequence, package_versions) /\ todo = sequence
          /\ specs_to_versions = <<>> /\ specs_to_types = <<>>
       \/ /\ package_versions = [n \in 1..10 |-> Release1(n)]
          /\ todo = <<>>
          /\ \E when_spec \in {PlatformSpec("linux"), EmptySpec} :
                 LET dep == <<Versioned("py-black", From(2, 0)), when_spec>>
                 IN  /\ specs_to_versions =
                            <<[key |-> dep,
                               value |-> <<Release1(1), Release1(2), Release1(3),
                                           Release1(7), Release1(8)>>]>>
                     /\ specs_to_types = <<[key |-> dep, value |-> {"build"}]>>
    /\ calls = <<>> /\ original_dependencies = {} /\ conversion_errors = <<>>
    /\ dependencies_by_type = <<>> /\ cache = <<>>
    /\ IdleCondense /\ IdleMarker /\ IdleConvert /\ IdleConflicts /\ IdleProvider /\ IdleLoad /\ IdleRun

\* one call _requirement_from_pyproject(r, dependency_types, pyproject_version,
\* provider, from_extra), the next of _dependencies_from_pyprojects; an exception
\* of convert_requirement ends the run
RequirementFromPyproject ==
    /\ pc = "start"
    /\ todo # <<>>
    /\ LET call == Head(todo)
           Returned(spec_list) ==
               /\ calls' = Append(calls, [call |-> call, spec_list |-> spec_list])
               /\ IF spec_list.kind \notin {"pairs", "ConversionError"}
                  THEN /\ pc' = "aborted"
                       /\ UNCHANGED <<todo, specs_to_versions, specs_to_types,
                                      original_dependencies, conversion_errors>>
                  ELSE /\ pc' = "start"
                       /\ todo' = Tail(todo)
                       /\ \E ordered \in Orders(spec_list.pairs) :
                              LET after == requirement_from_pyproject(Package, call,
                                                                      spec_list, ordered)
                              IN  /\ specs_to_versions' = after.specs_to_versions
                                  /\ specs_to_types' = after.specs_to_types
                                  /\ original_dependencies' = after.original_dependencies
                                  /\ conversion_errors' = after.conversion_errors
       IN  /\ Returned(convert_requirement(call.r, ProviderKnows(call.r.name), call.from_extra))
           /\ cache' = AfterConversion(cache, call.r,
                                       IF call.r.marker = None THEN MTrue
                                       ELSE evaluate_marker(call.r.marker))
    /\ UNCHANGED <<package_versions, dependencies_by_type, varsCondense, varsMarker,
                   varsConvert, varsConflicts, varsProvider,
                   varsLoad, varsRun>>

\* _combine_dependencies(), at the end of _dependencies_from_pyprojects; the
\* final dependency list and the conflicts are left in dependency_list and
\* dependency_conflicts
CombineDependencies ==
    /\ pc = "start"
    /\ todo = <<>>
    /\ package_versions # <<>>
    /\ LET Combined(combined) ==
               IF combined.kind # "ok"
               THEN /\ pc' = "aborted"
                    /\ specs_to_versions' = Rekeyed(specs_to_versions, combined.list)
                    /\ specs_to_types' = Rekeyed(specs_to_types, combined.list)
                    /\ UNCHANGED <<dependencies_by_type, varsConflicts>>
               ELSE \E dependency_names \in Orders(NamesOf(combined.list)) :
                        LET checked == find_dependency_satisfiability_conflicts(
                                           combined.list, dependency_names)
                        IN  /\ pc' = "combined"
                            /\ dependency_list' = checked.list
                            /\ dependency_conflicts' = checked.conflicts
                            /\ dependencies_by_type' = by_type(checked.list)
                            /\ specs_to_versions' = Rekeyed(specs_to_versions, checked.list)
                            /\ specs_to_types' = Rekeyed(specs_to_types, checked.list)
       IN  Combined(CombineLoop(specs_to_versions, specs_to_types, package_versions, 1, <<>>))
    /\ UNCHANGED <<package_versions, todo, calls, original_dependencies, conversion_errors,
                   cache, varsCondense, varsMarker, varsConvert, varsProvider,
                   varsLoad, varsRun>>

NextPackage == RequirementFromPyproject \/ CombineDependencies

SpecPackage == InitPackage /\ [][NextPackage]_vars

----------------------------------------------------------------------------
(* Claims about the dependency record *)

\* the record holds what the calls made so far put into it
BuiltByCalls == specs_to_versions = <<>> \/ calls # <<>>

\* the calls made so far that converted to the key
Producing(key) ==
    {k \in 1..Len(calls) : calls[k].spec_list.kind = "pairs" /\ key \in calls[k].spec_list.pairs}

LastCall == calls[Len(calls)]

\* C12: when the marker of the requirement evaluates to False, convert_requirement
\* returns the empty list, not a ConversionError, and the call adds no entry to
\* _specs_to_versions and _specs_to_types and no conversion error.
FalseMarkerDropsRequirement ==
    [][(/\ pc = "start" /\ todo # <<>>
        /\ Head(todo).r.marker # None
        /\ evaluate_marker(Head(todo).r.marker) = MFalse)
          => /\ calls'[Len(calls')].spec_list = Pairs({})
             /\ specs_to_versions' = specs_to_versions
             /\ specs_to_types' = specs_to_types
             /\ conversion_errors' = conversion_errors
             /\ todo' = Tail(todo)]_vars

\* black; implementation_name == 'pypy' has been processed after another requirement
FalseMarkerReached ==
    /\ pc = "start" /\ Len(calls) = 2
    /\ LastCall.call.r.marker = LeafMarker("implementation_name", "==", "pypy")
    /\ LastCall.spec_list = Pairs({})
    /\ Len(specs_to_versions) = 1
    /\ conversion_errors = <<>>

\* C14: the releases recorded for a key are a set: exactly the releases with a
\* requirement that converts to the key, each recorded once, also when a
\* requirement occurs in several requirement lists of one release.
RecordedReleasesAreSet ==
    (pc = "start" /\ BuiltByCalls) =>
        \A k \in 1..Len(specs_to_versions) :
            LET recorded == specs_to_versions[k].value
            IN  /\ \A i, j \in 1..Len(recorded) : recorded[i] = recorded[j] => i = j
                /\ Range(recorded)
                       = {calls[c].call.pyproject_version : c \in Producing(specs_to_versions[k].key)}

\* C15: the kinds recorded for a key are the union of the dependency types of
\* the calls that produced the key, and _specs_to_versions and _specs_to_types
\* have the same keys.
TypesAreUnion ==
    (pc = "start" /\ BuiltByCalls) =>
        /\ {specs_to_types[k].key : k \in 1..Len(specs_to_types)}
               = {specs_to_versions[k].key : k \in 1..Len(specs_to_versions)}
        /\ Len(specs_to_types) = Len(specs_to_versions)
        /\ \A k \in 1..Len(specs_to_types) :
               specs_to_types[k].value
                   = UNION {Range(calls[c].call.dependency_types) :
                               c \in Producing(specs_to_types[k].key)}

\* a requirement of build_requires and of dependencies: one key, build and run
TypesReached ==
    /\ pc = "start" /\ Len(calls) = 2
    /\ calls[1].call.dependency_types = <<"build">>
    /\ calls[2].call.dependency_types = <<"build", "run">>
    /\ Len(specs_to_types) = 1
    /\ Producing(specs_to_types[1].key) = {1, 2}
    /\ specs_to_types[1].value = {"build", "run"}

\* the conditions a and b differ at most in their own versions
SameButVersions(a, b) == [a EXCEPT !.versions = any_version] = [b EXCEPT !.versions = any_version]

\* where the final dependencies have the key: the pairs <<type string, position>>
PlacesOf(by_types, key) ==
    {place \in UNION {{<<g, i>> : i \in 1..Len(by_types[g])} : g \in DOMAIN by_types} :
        /\ by_types[place[1]][place[2]][1] = key[1]
        /\ SameButVersions(by_types[place[1]][place[2]][2], key[2])}

\* C16: after _combine_dependencies every recorded key is in the final
\* dependencies exactly once, under the type string of its kinds, and the own
\* versions of its condition contain a release of all_versions exactly if the
\* release is recorded for the key.
KeysCombinedOnce ==
    [][(pc = "start" /\ todo = <<>> /\ pc' # "start")
          => /\ pc' = "combined"
             /\ \A k \in 1..Len(specs_to_versions) :
                    LET key == specs_to_versions[k].key
                        types == specs_to_types[KeyIndex(specs_to_types, key)].value
                        places == PlacesOf(dependencies_by_type', key)
                    IN  /\ Cardinality(places) = 1
                        /\ \A place \in places :
                               /\ place[1] = format_types(types)
                               /\ \A v \in Range(package_versions) :
                                      Contains(dependencies_by_type'[place[1]][place[2]][2].versions,
                                               packaging_to_spack_version(v))
                                          <=> v \in Range(specs_to_versions[k].value)]_vars

\* C17: when convert_requirement returns a ConversionError for a requirement of
\* release v, the error is appended to the conversion errors of v, the errors of
\* the other releases, _specs_to_versions, _specs_to_types and
\* original_dependencies stay as they are, and the run goes on with the next call.
ErrorRecordedRunGoesOn ==
    [][(pc = "start" /\ todo # <<>> /\ calls'[Len(calls')].spec_list = ConversionError)
          => LET v == Head(todo).pyproject_version
                 before == IF v \in DOMAIN conversion_errors THEN conversion_errors[v] ELSE <<>>
             IN  /\ v \in DOMAIN conversion_errors'
                 /\ conversion_errors'[v] = Append(before, [requirement |-> Head(todo).r])
                 /\ DOMAIN conversion_errors' = DOMAIN conversion_errors \cup {v}
                 /\ \A w \in DOMAIN conversion_errors :
                        w # v => conversion_errors'[w] = conversion_errors[w]
                 /\ specs_to_versions' = specs_to_versions
                 /\ specs_to_types' = specs_to_types
                 /\ original_dependencies' = original_dependencies
                 /\ pc' = "start" /\ todo' = Tail(todo)]_vars

\* black>2.0 of one release gave an error, and the requirement of the next
\* release was recorded
ErrorReached ==
    /\ pc = "start" /\ Len(calls) = 2
    /\ calls[1].spec_list = ConversionError
    /\ calls[2].spec_list.kind = "pairs"
    /\ calls[1].call.pyproject_version # calls[2].call.pyproject_version
    /\ DOMAIN conversion_errors = {calls[1].call.pyproject_version}
    /\ Len(specs_to_versions) = 1
    /\ original_dependencies = {"black"}

DroppedByMarker(call) ==
    call.r.marker # None /\ evaluate_marker(call.r.marker) = MFalse

\* C30: a dependency all of whose requirements were dropped because their
\* markers are statically False is not in original_dependencies (the names
\* convert_package puts on its queue).
DroppedNotRecorded ==
    \A name \in original_dependencies :
        \E k \in 1..Len(calls) :
            calls[k].call.r.name = name /\ ~DroppedByMarker(calls[k].call)

----------------------------------------------------------------------------
(* core.py: _load_pyprojects and the metadata of build_from_pyprojects.  A   *)
(* PyProject is written as its version; the pyprojects of this part declare  *)
(* no requirements.                                                          *)

MaxReleases == 3

\* lines 786-789: reversed(version_list), cut where i == num_versions
Looked(version_list, number) ==
    LET newest_first == Reverse(version_list)
    IN  IF number >= 0 /\ number < Len(newest_first)
        THEN SubSeq(newest_first, 1, number)
        ELSE newest_first

\* _load_pyprojects: the pyprojects that could be got and parsed
load_pyprojects(version_list, number, failing) ==
    LET Parsed(v) == v \notin failing
    IN  SelectSeq(Looked(version_list, number), Parsed)

\* the sorted list provider.get_versions returned, what the pyproject.toml of
\* each version gives, and versions_per_package
InitLoad ==
    /\ pc = "start"
    /\ \E S \in SUBSET {Release1(n) : n \in 1..MaxReleases} : package_versions = PvSorted(S)
    /\ num_versions \in {-1, 0, 1, 2, 10}
    /\ unloadable \in SUBSET Range(package_versions)
    /\ loaded = <<>> /\ metadata = None
    /\ todo = <<>> /\ calls = <<>> /\ specs_to_versions = <<>> /\ specs_to_types = <<>>
    /\ original_dependencies = {} /\ conversion_errors = <<>>
    /\ dependencies_by_type = <<>> /\ cache = <<>>
    /\ IdleCondense /\ IdleMarker /\ IdleConvert /\ IdleConflicts /\ IdleProvider /\ IdleRun

\* _convert_single, lines 852-856: _load_pyprojects; without a pyproject the
\* conversion of the package fails
LoadPyprojects ==
    /\ pc = "start"
    /\ loaded' = load_pyprojects(package_versions, num_versions, unloadable)
    /\ pc' = IF loaded' = <<>> THEN "failed" ELSE "loaded"
    /\ UNCHANGED <<num_versions, unloadable, metadata, varsCondense, varsMarker, varsConvert,
                   varsConflicts, varsProvider, varsPackage, varsRun>>

\* build_from_pyprojects, line 526: _metadata_from_pyproject(pyprojects[-1])
BuildFromPyprojects ==
    /\ pc = "loaded"
    /\ metadata' = <<PyAt(loaded, -1)>>
    /\ pc' = "built"
    /\ UNCHANGED <<num_versions, unloadable, loaded, varsCondense, varsMarker, varsConvert,
                   varsConflicts, varsProvider, varsPackage, varsRun>>

NextLoad == LoadPyprojects \/ BuildFromPyprojects

SpecLoad == InitLoad /\ [][NextLoad]_vars

\* C26: the metadata of the generated package is taken from the most recent of
\* the releases _load_pyprojects handed to build_from_pyprojects.
MetadataFromMostRecent ==
    pc = "built" => /\ metadata # None
                    /\ metadata[1] \in Range(loaded)
                    /\ \A v \in Range(loaded) : PvLeq(v, metadata[1])

----------------------------------------------------------------------------
(* core.py: convert_package, the queue of packages to convert.  The world    *)
(* is what the collaborators answer for a name: the original_dependencies of *)
(* the package _convert_single builds (or no package), the packages Spack    *)
(* lists before the run, and whether "spack list" sees the repository the    *)
(* packages are written to.  use_test_prefix is False, no pyproject has      *)
(* cmake dependencies, the run is not interrupted.                           *)

PackageNames == {"black", "click", "tomli"}

\* spack_utils.package_exists_in_spack
package_exists_in_spack(spack_name, answers, repo) ==
    spack_name \in answers.in_spack \/ (answers.visible /\ spack_name \in repo)

\* _convert_single: None, or the SpackPyPkg as far as the loop reads it
convert_single(name, answers) ==
    IF name \in answers.unconvertible THEN None
    ELSE <<[name |-> pkg_to_spack_name(name),
            original_dependencies |-> answers.dependencies[name]]>>

\* variant: the package directory is written whether it exists or not
write_package_to_repo_again(spackpkg, repo) == TRUE

\* _write_package_to_repo: pkg_dir.mkdir() fails for a directory that exists
write_package_to_repo(spackpkg, repo) == spackpkg.name \notin repo

\* lines 975-986: the dependencies of a written package that are put on the queue
RECURSIVE QueueLoop(_, _, _, _, _, _)
QueueLoop(q, deps, k, failures, answers, repo) ==
    IF k > Len(deps) THEN q
    ELSE LET dep == deps[k]
         IN  IF /\ dep # "python"
                /\ dep \notin Range(q)
                /\ dep \notin Range(failures)
                /\ dep \notin answers.ignore_list
                /\ ~package_exists_in_spack(pkg_to_spack_name(dep), answers, repo)
             THEN QueueLoop(Append(q, dep), deps, k + 1, failures, answers, repo)
             ELSE QueueLoop(q, deps, k + 1, failures, answers, repo)

\* the loop goes on: line 941
LoopGuard ==
    queue # <<>> /\ (max_conversions = -1 \/ Len(converted_packages) < max_conversions)

InitRun ==
    /\ pc = "start"
    /\ \E black \in {{"click", "python"}, {"click", "tomli"}, {"click"}, {}},
          click \in {{}, {"black"}, {"tomli"}, {"black", "tomli"}},
          tomli \in {{}, {"black"}, {"click"}},
          unconvertible \in {{}, {"tomli"}, {"click"}},
          in_spack \in {{}, {"py-tomli"}, {"py-black"}},
          visible \in BOOLEAN,
          ignore_list \in {{}, {"tomli"}} :
           world = [name |-> "black",
                    dependencies |-> [n \in PackageNames |->
                                         IF n = "black" THEN black
                                         ELSE IF n = "click" THEN click ELSE tomli],
                    unconvertible |-> unconvertible, in_spack |-> in_spack,
                    visible |-> visible, ignore_list |-> ignore_list]
    /\ max_conversions \in {-1, 0, 1, 2}
    /\ queue = <<>> /\ converted_packages = <<>> /\ conversion_failures = <<>>
    /\ repo_packages = {} /\ popped = <<>>
    /\ IdleCondense /\ IdleMarker /\ IdleConvert /\ IdleConflicts /\ IdleProvider
    /\ IdlePackage /\ IdleLoad

\* lines 913-934: a package Spack has already is not converted; otherwise the
\* queue starts with the name
StartRun ==
    /\ pc = "start"
    /\ IF package_exists_in_spack(pkg_to_spack_name(world.name), world, repo_packages)
       THEN pc' = "returned" /\ UNCHANGED queue
       ELSE pc' = "loop" /\ queue' = <<world.name>>
    /\ UNCHANGED <<world, max_conversions, converted_packages, conversion_failures,
                   repo_packages, popped, varsCondense, varsMarker, varsConvert,
                   varsConflicts, varsProvider, varsPackage, varsLoad>>

\* lines 941-989: one turn of the while loop
ConvertNext ==
    /\ pc = "loop"
    /\ LoopGuard
    /\ LET name == queue[Len(queue)]
           rest == SubSeq(queue, 1, Len(queue) - 1)
           spackpkg == convert_single(name, world)
           Failed == /\ conversion_failures' = Append(conversion_failures, name)
                     /\ queue' = rest
                     /\ UNCHANGED <<converted_packages, repo_packages>>
       IN  /\ popped' = Append(popped, name)
           /\ IF spackpkg = None THEN Failed
              ELSE IF ~write_package_to_repo(spackpkg[1], repo_packages) THEN Failed
              ELSE /\ repo_packages' = repo_packages \cup {spackpkg[1].name}
                   /\ converted_packages' = Append(converted_packages, name)
                   /\ \E deps \in Orders(spackpkg[1].original_dependencies) :
                          queue' = QueueLoop(rest, deps, 1, conversion_failures, world,
                                             repo_packages')
                   /\ UNCHANGED conversion_failures
    /\ UNCHANGED <<pc, world, max_conversions, varsCondense, varsMarker, varsConvert,
                   varsConflicts, varsProvider, varsPackage, varsLoad>>

\* line 996: the loop has ended, _print_summary reports converted, queue and
\* conversion_failures
PrintSummary ==
    /\ pc = "loop"
    /\ ~LoopGuard
    /\ pc' = "summary"
    /\ UNCHANGED <<varsRun, varsCondense, varsMarker, varsConvert, varsConflicts,
                   varsProvider, varsPackage, varsLoad>>

NextRun == StartRun \/ ConvertNext \/ PrintSummary

SpecRun == InitRun /\ [][NextRun]_vars

\* the loop is a sequential program: a step that can be taken is taken
SpecRunFair == SpecRun /\ WF_vars(NextRun)

\* C22: at every point of a run with max_conversions >= 0, at most
\* max_conversions packages are converted and written, and the packages left in
\* the queue that the summary reports as unconverted have not been written.
ConversionsWithinLimit ==
    max_conversions >= 0 =>
        /\ Len(converted_packages) <= max_conversions
        /\ Cardinality(repo_packages) <= max_conversions
        /\ pc = "summary" =>
               \A k \in 1..Len(queue) :
                   /\ queue[k] \notin Range(converted_packages)
                   /\ pkg_to_spack_name(queue[k]) \notin repo_packages

\* the number of times a name was taken from the queue
TimesPopped(name) == Cardinality({k \in 1..Len(popped) : popped[k] = name})

\* C29: convert_package terminates for every dependency graph, cyclic ones and
\* max_conversions = -1 included, also when Spack does not list the packages
\* written in the run: the run reaches its summary (or its early return), every
\* name is taken from the queue at most twice and is written at most once.
ConvertPackageTerminates ==
    /\ [](/\ \A name \in PackageNames : TimesPopped(name) <= 2
          /\ \A a, b \in 1..Len(converted_packages) :
                 converted_packages[a] = converted_packages[b] => a = b
          /\ repo_packages = {pkg_to_spack_name(converted_packages[k]) :
                                 k \in 1..Len(converted_packages)})
    /\ <>(pc \in {"summary", "returned"})

\* an unlimited run over the cycle black -> click -> black that Spack does not
\* see has ended: black was taken twice and written once
CycleEnded ==
    /\ pc = "summary"
    /\ max_conversions = -1 /\ ~world.visible
    /\ "click" \in world.dependencies["black"] /\ "black" \in world.dependencies["click"]
    /\ TimesPopped("black") = 2
    /\ "black" \in Range(converted_packages) /\ "black" \in Range(conversion_failures)
    /\ queue = <<>>

============================================================================
